---------------------------- MODULE Spec2Model ----------------------------
(***************************************************************************)
(* Resource item type system of the deCONZ REST plugin (src/resource.cpp): *)
(* the descriptor catalog (rItemDescriptors), the value slot               *)
(* (ResourceItem) and the attribute bag (Resource); and the install code   *)
(* request of the devices REST API (src/unnamed/part_000).                 *)
(*                                                                         *)
(* Conventions                                                             *)
(*  - a ResourceItem is a record of its members; m_str is <<>> for the     *)
(*    null pointer and <<s>> for an allocated QString holding s;           *)
(*  - a QDateTime time stamp is a clock value, InvalidTime for a default one; *)
(*  - a suffix, a C string pointer, is one of the R... constants of the    *)
(*    source;                                                              *)
(*    their contents are pairwise different, so comparing the pointers     *)
(*    (as addItem, removeItem and item do) and comparing the contents      *)
(*    agree, and the model holds the content;                              *)
(*  - numbers are TLC integers, i.e. values of the signed 32-bit range;    *)
(*  - where copies are followed, strs holds the address of each item's     *)
(*    QString, so that two items with one buffer would see each other's    *)
(*    writes.                                                              *)
(***************************************************************************)
EXTENDS Integers, Sequences, FiniteSets

VARIABLES
    rItemDescriptors,  \* the catalog (static std::vector<ResourceItemDescriptor>)
    item,              \* the ResourceItem the calls are made on
    now,               \* QDateTime::currentDateTime()
    tz,                \* offset of the local time zone from UTC, in seconds
    last,              \* the last setValue call on item, or the last addItem
                       \* or removeItem call on a Resource, and what it returned
    bags,              \* the Resource objects: bags[b] for b in BagIds
    lookup,            \* the last catalog lookup: its key and its result
    strs,              \* strs[b][i]: the address of the QString that m_str of
                       \* item i of bags[b] points to, 0 for nullptr
    apiReq,            \* the ApiRequest req handed to RestDevices
    apiRsp             \* the ApiResponse rsp it fills

vars ==
    <<rItemDescriptors, item, now, tz, last, bags, lookup, strs, apiReq, apiRsp>>

----------------------------------------------------------------------------
(* Bounds of the model *)

MaxClock == 1      \* the clock runs from 0 to MaxClock
MaxRules == 2      \* inRule is called while fewer rules are recorded

----------------------------------------------------------------------------
(* ApiDataType *)

DataTypeUnknown == "DataTypeUnknown"
DataTypeBool == "DataTypeBool"
DataTypeUInt8 == "DataTypeUInt8"
DataTypeUInt16 == "DataTypeUInt16"
DataTypeUInt32 == "DataTypeUInt32"
DataTypeUInt64 == "DataTypeUInt64"
DataTypeInt8 == "DataTypeInt8"
DataTypeInt16 == "DataTypeInt16"
DataTypeInt32 == "DataTypeInt32"
DataTypeString == "DataTypeString"
DataTypeTime == "DataTypeTime"
DataTypeTimePattern == "DataTypeTimePattern"

RStateLastUpdated == "state/lastupdated"
RConfigLocalTime == "config/localtime"
RConfigBattery == "config/battery"
RInvalidSuffix == "invalid/suffix"

ResourceItemDescriptor(t, s, min, max) ==
    [type |-> t, suffix |-> s, validMin |-> min, validMax |-> max]

\* rItemDescriptors as initResourceDescriptors fills it, in registration order
DescriptorTable ==
    <<
       ResourceItemDescriptor(DataTypeString, "attr/name", 0, 0),
       ResourceItemDescriptor(DataTypeString, "attr/manufacturername", 0, 0),
       ResourceItemDescriptor(DataTypeString, "attr/modelid", 0, 0),
       ResourceItemDescriptor(DataTypeString, "attr/type", 0, 0),
       ResourceItemDescriptor(DataTypeString, "attr/class", 0, 0),
       ResourceItemDescriptor(DataTypeString, "attr/uniqueid", 0, 0),
       ResourceItemDescriptor(DataTypeString, "attr/swversion", 0, 0),
       ResourceItemDescriptor(DataTypeBool, "state/alarm", 0, 0),
       ResourceItemDescriptor(DataTypeString, "state/alert", 0, 0),
       ResourceItemDescriptor(DataTypeBool, "state/all_on", 0, 0),
       ResourceItemDescriptor(DataTypeBool, "state/any_on", 0, 0),
       ResourceItemDescriptor(DataTypeUInt8, "state/bri", 0, 0),
       ResourceItemDescriptor(DataTypeInt32, "state/buttonevent", 0, 0),
       ResourceItemDescriptor(DataTypeBool, "state/carbonmonoxide", 0, 0),
       ResourceItemDescriptor(DataTypeString, "state/colormode", 0, 0),
       ResourceItemDescriptor(DataTypeUInt64, "state/consumption", 0, 0),
       ResourceItemDescriptor(DataTypeUInt16, "state/current", 0, 0),
       ResourceItemDescriptor(DataTypeUInt16, "state/ct", 0, 0),
       ResourceItemDescriptor(DataTypeBool, "state/dark", 0, 0),
       ResourceItemDescriptor(DataTypeBool, "state/daylight", 0, 0),
       ResourceItemDescriptor(DataTypeString, "state/effect", 0, 0),
       ResourceItemDescriptor(DataTypeBool, "state/fire", 0, 0),
       ResourceItemDescriptor(DataTypeBool, "state/flag", 0, 0),
       ResourceItemDescriptor(DataTypeUInt16, "state/hue", 0, 0),
       ResourceItemDescriptor(DataTypeUInt16, "state/humidity", 0, 10000),
       ResourceItemDescriptor(DataTypeTime, "state/lastupdated", 0, 0),
       ResourceItemDescriptor(DataTypeUInt16, "state/lightlevel", 0, 65534),
       ResourceItemDescriptor(DataTypeBool, "state/lowbattery", 0, 0),
       ResourceItemDescriptor(DataTypeUInt32, "state/lux", 0, 0),
       ResourceItemDescriptor(DataTypeBool, "state/on", 0, 0),
       ResourceItemDescriptor(DataTypeBool, "state/open", 0, 0),
       ResourceItemDescriptor(DataTypeInt16, "state/orientation_x", 0, 0),
       ResourceItemDescriptor(DataTypeInt16, "state/orientation_y", 0, 0),
       ResourceItemDescriptor(DataTypeInt16, "state/orientation_z", 0, 0),
       ResourceItemDescriptor(DataTypeBool, "state/presence", 0, 0),
       ResourceItemDescriptor(DataTypeInt16, "state/pressure", 0, 32767),
       ResourceItemDescriptor(DataTypeInt16, "state/power", 0, 0),
       ResourceItemDescriptor(DataTypeBool, "state/reachable", 0, 0),
       ResourceItemDescriptor(DataTypeUInt8, "state/sat", 0, 0),
       ResourceItemDescriptor(DataTypeString, "action/scene", 0, 0),
       ResourceItemDescriptor(DataTypeUInt8, "state/speed", 0, 6),
       ResourceItemDescriptor(DataTypeInt32, "state/status", 0, 0),
       ResourceItemDescriptor(DataTypeBool, "state/tampered", 0, 0),
       ResourceItemDescriptor(DataTypeInt16, "state/temperature", -27315, 32767),
       ResourceItemDescriptor(DataTypeUInt16, "state/tiltangle", 0, 0),
       ResourceItemDescriptor(DataTypeUInt8, "state/valve", 0, 0),
       ResourceItemDescriptor(DataTypeBool, "state/vibration", 0, 0),
       ResourceItemDescriptor(DataTypeUInt16, "state/vibrationstrength", 0, 0),
       ResourceItemDescriptor(DataTypeUInt16, "state/voltage", 0, 0),
       ResourceItemDescriptor(DataTypeBool, "state/water", 0, 0),
       ResourceItemDescriptor(DataTypeUInt16, "state/x", 0, 0),
       ResourceItemDescriptor(DataTypeUInt16, "state/y", 0, 0),
       ResourceItemDescriptor(DataTypeString, "config/alert", 0, 0),
       ResourceItemDescriptor(DataTypeUInt8, "config/battery", 0, 100),
       ResourceItemDescriptor(DataTypeUInt16, "config/colorcapabilities", 0, 0),
       ResourceItemDescriptor(DataTypeUInt16, "config/ctmin", 0, 0),
       ResourceItemDescriptor(DataTypeUInt16, "config/ctmax", 0, 0),
       ResourceItemDescriptor(DataTypeBool, "config/configured", 0, 0),
       ResourceItemDescriptor(DataTypeUInt16, "config/delay", 0, 0),
       ResourceItemDescriptor(DataTypeBool, "config/displayflipped", 0, 0),
       ResourceItemDescriptor(DataTypeUInt16, "config/duration", 0, 0),
       ResourceItemDescriptor(DataTypeString, "config/group", 0, 0),
       ResourceItemDescriptor(DataTypeInt16, "config/heatsetpoint", 500, 3000),
       ResourceItemDescriptor(DataTypeUInt32, "config/hostflags", 0, 0),
       ResourceItemDescriptor(DataTypeUInt32, "config/id", 0, 0),
       ResourceItemDescriptor(DataTypeString, "config/lat", 0, 0),
       ResourceItemDescriptor(DataTypeBool, "config/ledindication", 0, 0),
       ResourceItemDescriptor(DataTypeTime, "config/localtime", 0, 0),
       ResourceItemDescriptor(DataTypeBool, "config/locked", 0, 0),
       ResourceItemDescriptor(DataTypeString, "config/long", 0, 0),
       ResourceItemDescriptor(DataTypeUInt8, "config/levelmin", 0, 0),
       ResourceItemDescriptor(DataTypeString, "config/mode", 0, 0),
       ResourceItemDescriptor(DataTypeInt16, "config/offset", -500, 500),
       ResourceItemDescriptor(DataTypeBool, "config/on", 0, 0),
       ResourceItemDescriptor(DataTypeUInt8, "config/pending", 0, 0),
       ResourceItemDescriptor(DataTypeUInt32, "config/powerup", 0, 0),
       ResourceItemDescriptor(DataTypeUInt8, "config/poweronlevel", 0, 0),
       ResourceItemDescriptor(DataTypeUInt16, "config/poweronct", 0, 0),
       ResourceItemDescriptor(DataTypeBool, "config/reachable", 0, 0),
       ResourceItemDescriptor(DataTypeString, "config/scheduler", 0, 0),
       ResourceItemDescriptor(DataTypeBool, "config/scheduleron", 0, 0),
       ResourceItemDescriptor(DataTypeUInt8, "config/sensitivity", 0, 0),
       ResourceItemDescriptor(DataTypeUInt8, "config/sensitivitymax", 0, 0),
       ResourceItemDescriptor(DataTypeInt8, "config/sunriseoffset", -120, 120),
       ResourceItemDescriptor(DataTypeInt8, "config/sunsetoffset", -120, 120),
       ResourceItemDescriptor(DataTypeInt16, "config/temperature", -27315, 32767),
       ResourceItemDescriptor(DataTypeUInt16, "config/tholddark", 0, 65534),
       ResourceItemDescriptor(DataTypeUInt16, "config/tholdoffset", 1, 65534),
       ResourceItemDescriptor(DataTypeString, "config/url", 0, 0),
       ResourceItemDescriptor(DataTypeBool, "config/usertest", 0, 0),
       ResourceItemDescriptor(DataTypeUInt8, "config/windowcoveringtype", 0, 0),
       ResourceItemDescriptor(DataTypeUInt8, "config/ubisys_j1_mode", 0, 0),
       ResourceItemDescriptor(DataTypeUInt8, "config/ubisys_j1_windowcoveringtype", 0, 0),
       ResourceItemDescriptor(DataTypeUInt8, "config/ubisys_j1_configurationandstatus", 0, 0),
       ResourceItemDescriptor(DataTypeUInt16, "config/ubisys_j1_installedopenlimitlift", 0, 0),
       ResourceItemDescriptor(DataTypeUInt16, "config/ubisys_j1_installedclosedlimitlift", 0, 0),
       ResourceItemDescriptor(DataTypeUInt16, "config/ubisys_j1_installedopenlimittilt", 0, 0),
       ResourceItemDescriptor(DataTypeUInt16, "config/ubisys_j1_installedclosedlimittilt", 0, 0),
       ResourceItemDescriptor(DataTypeUInt8, "config/ubisys_j1_turnaroundguardtime", 0, 0),
       ResourceItemDescriptor(DataTypeUInt16, "config/ubisys_j1_lifttotilttransitionsteps", 0, 0),
       ResourceItemDescriptor(DataTypeUInt16, "config/ubisys_j1_totalsteps", 0, 0),
       ResourceItemDescriptor(DataTypeUInt16, "config/ubisys_j1_lifttotilttransitionsteps2", 0, 0),
       ResourceItemDescriptor(DataTypeUInt16, "config/ubisys_j1_totalsteps2", 0, 0),
       ResourceItemDescriptor(DataTypeUInt8, "config/ubisys_j1_additionalsteps", 0, 0),
       ResourceItemDescriptor(DataTypeUInt16, "config/ubisys_j1_inactivepowerthreshold", 0, 0),
       ResourceItemDescriptor(DataTypeUInt16, "config/ubisys_j1_startupsteps", 0, 0)
    >>

InvalidTime == -1   \* QDateTime(): isValid() is false


----------------------------------------------------------------------------
(* QDateTime: formatting and parsing with the format "yyyy-MM-ddTHH:mm:ss". *)
(* A time is a number of milliseconds since the epoch; off is the offset   *)
(* from UTC, in seconds, of the time zone the text is written in. The      *)
(* calendar covers the days DateStr names.                                 *)

Digits == <<"0", "1", "2", "3", "4", "5", "6", "7", "8", "9">>

Digit(d) == Digits[d + 1]

IsDigit(ch) == \E d \in 0..9 : Digit(d) = ch

DigitVal(ch) == CHOOSE d \in 0..9 : Digit(d) = ch

TwoDigits(n) == Digit(n \div 10) \o Digit(n % 10)

CalendarDays == -2..2

DateStr(day) ==
    CASE day = -2 -> "1969-12-30"
      [] day = -1 -> "1969-12-31"
      [] day = 0 -> "1970-01-01"
      [] day = 1 -> "1970-01-02"
      [] day = 2 -> "1970-01-03"

\* QDateTime::toString("yyyy-MM-ddTHH:mm:ss") of the time ms shown at offset off
FormatTime(ms, off) ==
    LET secs == (ms \div 1000) + off
        day == secs \div 86400
        sod == secs % 86400
    IN DateStr(day) \o "T" \o TwoDigits(sod \div 3600) \o ":"
         \o TwoDigits((sod % 3600) \div 60) \o ":" \o TwoDigits(sod % 60)

\* QDateTime::fromString(str, "yyyy-MM-ddTHH:mm:ss"): a local time, and
\* toMSecsSinceEpoch() of it
ParseTime(str, off) ==
    LET ch(i) == SubSeq(str, i, i)
        shape == /\ Len(str) = 19
                 /\ \E day \in CalendarDays : DateStr(day) = SubSeq(str, 1, 10)
                 /\ ch(11) = "T" /\ ch(14) = ":" /\ ch(17) = ":"
                 /\ \A i \in {12, 13, 15, 16, 18, 19} : IsDigit(ch(i))
        num(i) == DigitVal(ch(i)) * 10 + DigitVal(ch(i + 1))
        day == CHOOSE d \in CalendarDays : DateStr(d) = SubSeq(str, 1, 10)
    IN IF shape /\ num(12) < 24 /\ num(15) < 60 /\ num(18) < 60
       THEN [valid |-> TRUE,
             ms |-> (day * 86400 + num(12) * 3600 + num(15) * 60 + num(18) - off) * 1000]
       ELSE [valid |-> FALSE, ms |-> 0]

----------------------------------------------------------------------------
(* QVariant: a tagged value, and its conversions as the slot uses them. *)

Variant(t, b, n, s) == [type |-> t, b |-> b, n |-> n, s |-> s]

VInvalid == Variant("Invalid", FALSE, 0, "")
VBool(b) == Variant("Bool", b, 0, "")
VInt(n) == Variant("Int", FALSE, n, "")
VDouble(n) == Variant("Double", FALSE, n, "")      \* a double of integral value n
VString(s) == Variant("String", FALSE, 0, s)
VDateTime(ms) == Variant("DateTime", FALSE, ms, "")
VMap == Variant("Map", FALSE, 0, "")               \* a QVariantMap: no conversion

\* QVariant::isValid() that holds for the invalid QVariant too
isValid_Always(val) == TRUE

isValid(val) == val.type # "Invalid"

RECURSIVE DecStr(_)
\* QString::number(n)
DecStr(n) ==
    IF n < 0 THEN "-" \o DecStr(-n)
    ELSE IF n < 10 THEN Digit(n)
    ELSE DecStr(n \div 10) \o Digit(n % 10)

RECURSIVE DigitsValue(_)
DigitsValue(str) ==
    IF Len(str) = 0 THEN 0
    ELSE DigitsValue(SubSeq(str, 1, Len(str) - 1)) * 10
           + DigitVal(SubSeq(str, Len(str), Len(str)))

AllDigits(str) ==
    Len(str) > 0 /\ \A i \in 1..Len(str) : IsDigit(SubSeq(str, i, i))

\* QString::toLongLong(&ok)
ParseInt(str) ==
    LET neg == Len(str) > 0 /\ SubSeq(str, 1, 1) = "-"
        body == IF neg THEN SubSeq(str, 2, Len(str)) ELSE str
    IN IF AllDigits(body)
       THEN [ok |-> TRUE, n |-> IF neg THEN -DigitsValue(body) ELSE DigitsValue(body)]
       ELSE [ok |-> FALSE, n |-> 0]

\* QVariant::toString()
toStringVariant(val, off) ==
    CASE val.type = "String" -> val.s
      [] val.type = "Bool" -> IF val.b THEN "true" ELSE "false"
      [] val.type \in {"Int", "Double"} -> DecStr(val.n)
      [] val.type = "DateTime" -> FormatTime(val.n, off)
      [] OTHER -> ""

\* QVariant::toBool()
toBoolVariant(val) ==
    CASE val.type = "Bool" -> val.b
      [] val.type \in {"Int", "Double"} -> val.n # 0
      [] val.type = "String" -> val.s \notin {"", "0", "false"}
      [] OTHER -> FALSE

\* QVariant::toInt(&ok) that converts nothing
toIntVariant_NotOk(val) == [ok |-> FALSE, n |-> 0]

\* QVariant::toInt(&ok)
toIntVariant(val) ==
    CASE val.type \in {"Int", "Double"} -> [ok |-> TRUE, n |-> val.n]
      [] val.type = "Bool" -> [ok |-> TRUE, n |-> IF val.b THEN 1 ELSE 0]
      [] val.type = "String" -> ParseInt(val.s)
      [] OTHER -> [ok |-> FALSE, n |-> 0]

----------------------------------------------------------------------------
(* The catalog of descriptors *)

\* initResourceDescriptors() that also registers the suffix on
initResourceDescriptors_ShortSuffix ==
    Append(DescriptorTable, ResourceItemDescriptor(DataTypeBool, "on", 0, 0))

\* initResourceDescriptors() that does not clear the table
initResourceDescriptors_NoClear == rItemDescriptors \o DescriptorTable

\* void initResourceDescriptors(): the table is cleared and filled
initResourceDescriptors == DescriptorTable

\* QString::endsWith(QLatin1String)
endsWith(str, suffix) ==
    /\ Len(str) >= Len(suffix)
    /\ SubSeq(str, Len(str) - Len(suffix) + 1, Len(str)) = suffix

\* the scan of the table from entry i on
RECURSIVE ScanDescriptors(_, _, _, _)
ScanDescriptors(table, i, str, descr) ==
    IF i > Len(table)
    THEN [ret |-> FALSE, descr |-> descr]
    ELSE IF endsWith(str, table[i].suffix)
    THEN [ret |-> TRUE, descr |-> table[i]]
    ELSE ScanDescriptors(table, i + 1, str, descr)

\* the lookup that asks for the whole key to be the suffix
getResourceItemDescriptor_Exact(table, str, descr) ==
    LET hits == {i \in 1..Len(table) : table[i].suffix = str}
    IN IF hits = {}
       THEN [ret |-> FALSE, descr |-> descr]
       ELSE [ret |-> TRUE, descr |-> table[CHOOSE i \in hits : \A j \in hits : i <= j]]

\* bool getResourceItemDescriptor(const QString &str,
\* ResourceItemDescriptor &descr) over the table rItemDescriptors: what it
\* returns and descr afterwards
getResourceItemDescriptor(table, str, descr) ==
    ScanDescriptors(table, 1, str, descr)

----------------------------------------------------------------------------
(* ResourceItem *)

UInt16Modulus == 65536    \* quint16 holds a value modulo 2^16

HasStr(it) == it.m_str # <<>>

Str(it) == it.m_str[1]

\* ResourceItem::ResourceItem(const ResourceItemDescriptor &rid). The
\* initializer list does not name m_isPublic, m_lastSet, m_lastChanged and
\* m_rulesInvolved: they hold the defaults of the class declaration.
ResourceItem(rid) ==
    [m_num |-> 0,
     m_numPrev |-> 0,
     m_str |-> IF rid.type \in {DataTypeString, DataTypeTime, DataTypeTimePattern}
               THEN <<"">> ELSE <<>>,
     m_rid |-> rid,
     m_isPublic |-> TRUE,
     m_lastSet |-> InvalidTime,
     m_lastChanged |-> InvalidTime,
     m_rulesInvolved |-> <<>>]

\* const QString &ResourceItem::toString() const: the text returned and the
\* item afterwards (a Time item's buffer is rewritten by the call)
toString(it, off) ==
    IF it.m_rid.type \in {DataTypeString, DataTypeTimePattern} /\ HasStr(it)
    THEN [res |-> Str(it), item |-> it]
    ELSE IF it.m_rid.type = DataTypeTime /\ HasStr(it)
    THEN LET text == IF it.m_rid.suffix = RStateLastUpdated
                     THEN FormatTime(it.m_num, 0)
                     ELSE FormatTime(it.m_num, off)
         IN [res |-> text, item |-> [it EXCEPT !.m_str = <<text>>]]
    ELSE [res |-> "", item |-> it]     \* rItemStrings[0], the invalid string

toNumber(it) == it.m_num

toNumberPrevious(it) == it.m_numPrev

toBool(it) == it.m_num # 0

\* setValue(const QString &) that stamps m_lastChanged on every accepted call
setValueString_AlwaysChanged(it, val, t) ==
    IF HasStr(it)
    THEN [ret |-> TRUE,
          item |-> [it EXCEPT !.m_lastSet = t, !.m_str = <<val>>,
                              !.m_lastChanged = t]]
    ELSE [ret |-> FALSE, item |-> it]

\* bool ResourceItem::setValue(const QString &val), called at time t
setValueString(it, val, t) ==
    IF HasStr(it)
    THEN [ret |-> TRUE,
          item |-> IF Str(it) # val
                   THEN [it EXCEPT !.m_lastSet = t, !.m_str = <<val>>,
                                   !.m_lastChanged = t]
                   ELSE [it EXCEPT !.m_lastSet = t]]
    ELSE [ret |-> FALSE, item |-> it]

\* the numeric store that stamps m_lastChanged whether or not the value differs
StoreNumber_AlwaysChanged(it, val, t) ==
    [it EXCEPT !.m_lastSet = t, !.m_numPrev = it.m_num,
               !.m_num = val, !.m_lastChanged = t]

\* the numeric store that keeps m_numPrev when the value does not differ
StoreNumber_PrevOnChange(it, val, t) ==
    IF it.m_num # val
    THEN [it EXCEPT !.m_lastSet = t, !.m_numPrev = it.m_num,
                    !.m_num = val, !.m_lastChanged = t]
    ELSE [it EXCEPT !.m_lastSet = t]

\* the numeric store that stamps m_lastSet only when the value does not differ
StoreNumber_ChangedOnly(it, val, t) ==
    IF it.m_num # val
    THEN [it EXCEPT !.m_numPrev = it.m_num, !.m_num = val, !.m_lastChanged = t]
    ELSE [it EXCEPT !.m_lastSet = t, !.m_numPrev = it.m_num]

\* the numeric store that never stamps m_lastChanged
StoreNumber_KeepsChanged(it, val, t) ==
    [it EXCEPT !.m_lastSet = t, !.m_numPrev = it.m_num, !.m_num = val]

\* the numeric store shared by the branches of setValue: m_lastSet,
\* m_numPrev, then m_num and m_lastChanged when the value differs
StoreNumber(it, val, t) ==
    IF it.m_num # val
    THEN [it EXCEPT !.m_lastSet = t, !.m_numPrev = it.m_num,
                    !.m_num = val, !.m_lastChanged = t]
    ELSE [it EXCEPT !.m_lastSet = t, !.m_numPrev = it.m_num]

\* setValue(qint64) whose range check has no upper bound
setValueNumber_NoUpperBound(it, val, t) ==
    IF /\ (it.m_rid.validMin # 0 \/ it.m_rid.validMax # 0)
       /\ val < it.m_rid.validMin
    THEN [ret |-> FALSE, item |-> it]
    ELSE [ret |-> TRUE, item |-> StoreNumber(it, val, t)]

\* setValue(qint64) whose range check has no lower bound
setValueNumber_NoLowerBound(it, val, t) ==
    IF /\ (it.m_rid.validMin # 0 \/ it.m_rid.validMax # 0)
       /\ val > it.m_rid.validMax
    THEN [ret |-> FALSE, item |-> it]
    ELSE [ret |-> TRUE, item |-> StoreNumber(it, val, t)]

\* setValue(qint64) that stamps m_lastSet before the range check
setValueNumber_StampsFirst(it, val, t) ==
    IF /\ (it.m_rid.validMin # 0 \/ it.m_rid.validMax # 0)
       /\ (val < it.m_rid.validMin \/ val > it.m_rid.validMax)
    THEN [ret |-> FALSE, item |-> [it EXCEPT !.m_lastSet = t]]
    ELSE [ret |-> TRUE, item |-> StoreNumber(it, val, t)]

\* setValue(qint64) that checks the range of every descriptor
setValueNumber_AlwaysChecked(it, val, t) ==
    IF val < it.m_rid.validMin \/ val > it.m_rid.validMax
    THEN [ret |-> FALSE, item |-> it]
    ELSE [ret |-> TRUE, item |-> StoreNumber(it, val, t)]

\* bool ResourceItem::setValue(qint64 val), called at time t
setValueNumber(it, val, t) ==
    IF /\ (it.m_rid.validMin # 0 \/ it.m_rid.validMax # 0)
       /\ (val < it.m_rid.validMin \/ val > it.m_rid.validMax)
    THEN [ret |-> FALSE, item |-> it]
    ELSE [ret |-> TRUE, item |-> StoreNumber(it, val, t)]

\* bool ResourceItem::setValue(const QVariant &val), called at time t in a
\* time zone of offset off
setValueVariant(it, val, t, off) ==
    IF ~isValid(val)
    THEN [ret |-> TRUE,
          item |-> [it EXCEPT !.m_lastSet = InvalidTime,
                              !.m_lastChanged = InvalidTime]]
    ELSE IF it.m_rid.type \in {DataTypeString, DataTypeTimePattern}
    THEN IF HasStr(it)
         THEN setValueString(it, toStringVariant(val, off), t)
         ELSE [ret |-> FALSE, item |-> it]
    ELSE IF it.m_rid.type = DataTypeBool
    THEN [ret |-> TRUE,
          item |-> StoreNumber(it, IF toBoolVariant(val) THEN 1 ELSE 0, t)]
    ELSE IF it.m_rid.type = DataTypeTime
    THEN IF val.type = "String"
         THEN LET dt == ParseTime(val.s, off)
              IN IF dt.valid
                 THEN [ret |-> TRUE, item |-> StoreNumber(it, dt.ms, t)]
                 ELSE [ret |-> FALSE, item |-> it]
         ELSE IF val.type = "DateTime"
         THEN [ret |-> TRUE, item |-> StoreNumber(it, val.n, t)]
         ELSE [ret |-> FALSE, item |-> it]
    ELSE LET n == toIntVariant(val)
         IN IF ~n.ok
            THEN [ret |-> FALSE, item |-> it]
            ELSE IF it.m_rid.validMin = 0 /\ it.m_rid.validMax = 0
            THEN [ret |-> TRUE, item |-> StoreNumber(it, n.n, t)]
            ELSE IF n.n >= it.m_rid.validMin /\ n.n <= it.m_rid.validMax
            THEN [ret |-> TRUE, item |-> StoreNumber(it, n.n, t)]
            ELSE [ret |-> FALSE, item |-> it]

\* toVariant() without the test of m_lastSet
toVariant_IgnoresLastSet(it, off) ==
    IF it.m_rid.type \in {DataTypeString, DataTypeTimePattern}
    THEN [res |-> VString(IF HasStr(it) THEN Str(it) ELSE ""), item |-> it]
    ELSE IF it.m_rid.type = DataTypeBool
    THEN [res |-> VBool(it.m_num # 0), item |-> it]
    ELSE IF it.m_rid.type = DataTypeTime
    THEN LET r == toString(it, off) IN [res |-> VString(r.res), item |-> r.item]
    ELSE [res |-> VDouble(it.m_num), item |-> it]

\* QVariant ResourceItem::toVariant() const: the value returned and the item
\* afterwards (the Time branch calls toString)
toVariant(it, off) ==
    IF it.m_lastSet = InvalidTime
    THEN [res |-> VInvalid, item |-> it]
    ELSE IF it.m_rid.type \in {DataTypeString, DataTypeTimePattern}
    THEN [res |-> VString(IF HasStr(it) THEN Str(it) ELSE ""), item |-> it]
    ELSE IF it.m_rid.type = DataTypeBool
    THEN [res |-> VBool(it.m_num # 0), item |-> it]
    ELSE IF it.m_rid.type = DataTypeTime
    THEN LET r == toString(it, off) IN [res |-> VString(r.res), item |-> r.item]
    ELSE [res |-> VDouble(it.m_num), item |-> it]

\* void ResourceItem::inRule(int ruleHandle): the loop variable is a quint16
inRule(it, ruleHandle) ==
    IF \E i \in 1..Len(it.m_rulesInvolved) :
           it.m_rulesInvolved[i] % UInt16Modulus = ruleHandle
    THEN it
    ELSE [it EXCEPT !.m_rulesInvolved = Append(@, ruleHandle)]

rulesInvolved(it) == it.m_rulesInvolved

isPublic(it) == it.m_isPublic

setIsPublic(it, pub) == [it EXCEPT !.m_isPublic = pub]

\* ResourceItem &ResourceItem::operator=(const ResourceItem &other), for
\* this # &other: the item assigned to, which takes every field from other
\* and the text of a new buffer from other.toString(), and other afterwards
operatorAssign(other, off) ==
    LET text == toString(other, off)
    IN [item |-> [m_num |-> other.m_num,
                  m_numPrev |-> other.m_numPrev,
                  m_str |-> IF HasStr(other) THEN <<text.res>> ELSE <<>>,
                  m_rid |-> other.m_rid,
                  m_isPublic |-> other.m_isPublic,
                  m_lastSet |-> other.m_lastSet,
                  m_lastChanged |-> other.m_lastChanged,
                  m_rulesInvolved |-> rulesInvolved(other)],
        other |-> IF HasStr(other) THEN text.item ELSE other]

\* ResourceItem::ResourceItem(const ResourceItem &other)
ResourceItemCopy(other, off) == operatorAssign(other, off)

----------------------------------------------------------------------------
(* Resource *)

RSensors == "/sensors"

\* Resource::Resource(const char *prefix)
Resource(prefix) == [m_prefix |-> prefix, m_rItems |-> <<>>]

\* std::vector<ResourceItem> copied element by element with the copy
\* constructor: the new elements, and the elements copied from afterwards
CopyItems(rItems, off) ==
    [new |-> [i \in 1..Len(rItems) |-> ResourceItemCopy(rItems[i], off).item],
     old |-> [i \in 1..Len(rItems) |-> ResourceItemCopy(rItems[i], off).other]]

\* Resource::Resource(const Resource &other): the copy, and other afterwards
ResourceCopy(other, off) ==
    [r |-> [m_prefix |-> other.m_prefix,
            m_rItems |-> CopyItems(other.m_rItems, off).new],
     other |-> [other EXCEPT !.m_rItems = CopyItems(other.m_rItems, off).old]]

\* the first index of m_rItems whose descriptor has the suffix, 0 when none
\* has: a pointer to an element is its index, the null pointer is 0
IndexOfSuffix(rItems, suffix) ==
    LET hits == {i \in 1..Len(rItems) : rItems[i].m_rid.suffix = suffix}
    IN IF hits = {} THEN 0
       ELSE CHOOSE i \in hits : \A j \in hits : i <= j

\* ResourceItem *Resource::item(const char *suffix)
Resource_item(r, suffix) == IndexOfSuffix(r.m_rItems, suffix)

\* addItem that does not look the suffix up first
addItem_NoLookup(r, type, suffix, realloc, off) ==
    LET hits == {i \in 1..Len(rItemDescriptors) :
                    /\ rItemDescriptors[i].suffix = suffix
                    /\ rItemDescriptors[i].type = type}
    IN IF hits # {}
       THEN [res |-> Len(r.m_rItems) + 1,
             r |-> [r EXCEPT !.m_rItems = Append(@,
                       ResourceItem(rItemDescriptors[CHOOSE i \in hits : \A j \in hits : i <= j]))]]
       ELSE [res |-> 0, r |-> r]

\* addItem that returns the item found only when it has the type asked for
addItem_TypeChecked(r, type, suffix, realloc, off) ==
    LET it == Resource_item(r, suffix)
    IN IF it # 0
       THEN [res |-> IF r.m_rItems[it].m_rid.type = type THEN it ELSE 0,
             r |-> r]
       ELSE addItem_NoLookup(r, type, suffix, realloc, off)

\* addItem that takes the first descriptor whose suffix the suffix asked for
\* ends with
addItem_EndsWith(r, type, suffix, realloc, off) ==
    LET it == Resource_item(r, suffix)
        hits == {i \in 1..Len(rItemDescriptors) :
                    /\ endsWith(suffix, rItemDescriptors[i].suffix)
                    /\ rItemDescriptors[i].type = type}
    IN IF it # 0
       THEN [res |-> it, r |-> r, err |-> FALSE]
       ELSE IF hits # {}
       THEN [res |-> Len(r.m_rItems) + 1,
             r |-> [r EXCEPT !.m_rItems = Append(@,
                       ResourceItem(rItemDescriptors[CHOOSE i \in hits : \A j \in hits : i <= j]))],
             err |-> FALSE]
       ELSE [res |-> 0, r |-> r, err |-> TRUE]

\* ResourceItem *Resource::addItem(ApiDataType type, const char *suffix): the
\* pointer returned, the Resource afterwards, and whether the error was
\* reported. emplace_back copies the items to a larger array when realloc
\* holds.
addItem(r, type, suffix, realloc, off) ==
    LET it == Resource_item(r, suffix)
        hits == {i \in 1..Len(rItemDescriptors) :
                    /\ rItemDescriptors[i].suffix = suffix
                    /\ rItemDescriptors[i].type = type}
    IN IF it # 0
       THEN [res |-> it, r |-> r, err |-> FALSE]
       ELSE IF hits # {}
       THEN LET i == CHOOSE i \in hits : \A j \in hits : i <= j
                kept == IF realloc THEN CopyItems(r.m_rItems, off).new
                        ELSE r.m_rItems
            IN [res |-> Len(r.m_rItems) + 1,
                r |-> [r EXCEPT !.m_rItems =
                          Append(kept, ResourceItem(rItemDescriptors[i]))],
                err |-> FALSE]
       ELSE [res |-> 0, r |-> r, err |-> TRUE]     \* DBG_Assert(0), DBG_Printf

\* removeItem that drops the last item whichever item has the suffix
removeItem_PopOnly(r, suffix, off) ==
    IF IndexOfSuffix(r.m_rItems, suffix) = 0
    THEN r
    ELSE [r EXCEPT !.m_rItems = SubSeq(@, 1, Len(@) - 1)]

\* removeItem that moves every later item one place down
removeItem_Erase(r, suffix, off) ==
    LET k == IndexOfSuffix(r.m_rItems, suffix)
        n == Len(r.m_rItems)
    IN IF k = 0
       THEN r
       ELSE [r EXCEPT !.m_rItems = SubSeq(@, 1, k - 1) \o SubSeq(@, k + 1, n)]

\* void Resource::removeItem(const char *suffix): the first item with the
\* suffix is assigned the last item, and the last item is dropped. Assigning
\* the last item to itself changes nothing.
removeItem(r, suffix, off) ==
    LET k == IndexOfSuffix(r.m_rItems, suffix)
        n == Len(r.m_rItems)
    IN IF k = 0
       THEN r
       ELSE IF k = n
       THEN [r EXCEPT !.m_rItems = SubSeq(@, 1, n - 1)]
       ELSE [r EXCEPT !.m_rItems =
                [SubSeq(@, 1, n - 1) EXCEPT
                    ![k] = operatorAssign(r.m_rItems[n], off).item]]

\* int Resource::itemCount() const
itemCount(r) == Len(r.m_rItems)

\* itemForIndex that takes the size for an index
itemForIndex_OffByOne(r, idx) == IF idx <= Len(r.m_rItems) THEN idx + 1 ELSE 0

\* ResourceItem *Resource::itemForIndex(size_t idx), idx counted from 0
itemForIndex(r, idx) == IF idx < Len(r.m_rItems) THEN idx + 1 ELSE 0

----------------------------------------------------------------------------
(* The values the calls are tried with *)

\* the descriptors of the catalog an item is built from: each data type,
\* without a range, with a range around 0, and with a range that excludes 0
ItemSuffixes ==
    {"attr/name", "state/on", "state/ct", RConfigBattery, "config/tholdoffset",
     RStateLastUpdated, RConfigLocalTime}

StringInputs == {"a", "1970-01-01T00:00:01"}

NumberInputs(rid) ==
    {rid.validMin - 1, rid.validMin, rid.validMax, rid.validMax + 1}

VariantInputs(rid) ==
    {VInvalid, VBool(TRUE), VBool(FALSE), VMap, VDateTime(1000)}
      \cup {VInt(rid.validMax), VInt(rid.validMax + 1)}
      \cup {VString(s) : s \in StringInputs \cup {"1"}}

\* the suffixes a Resource is asked for: a Bool, a String and a Time
\* descriptor of the catalog
BagSuffixes == {"state/on", "attr/name", RStateLastUpdated}

\* the items a Resource is asked to add: the three descriptors, a suffix of
\* the catalog with the type of another descriptor, and a suffix the catalog
\* does not hold
BagRequests ==
    {<<DataTypeBool, "state/on">>, <<DataTypeString, "attr/name">>,
     <<DataTypeTime, RStateLastUpdated>>, <<DataTypeBool, "attr/name">>,
     <<DataTypeBool, RInvalidSuffix>>}

\* the items the Resource that is not copied is asked to add: those above,
\* and a suffix that ends with a suffix of the catalog
OneBagRequests == BagRequests \cup {<<DataTypeBool, "xyz/state/on">>}

\* the indices itemForIndex is asked for
BagIndices == 0..4

BagIds == {"r", "copy"}

\* the keys looked up: what a key starts with, and what it ends with
KeyPrefixes == {"", "xyz/", "/sensors/1/", "/lights/2/"}

KeyEndings ==
    {RConfigBattery, "state/battery", "state/on", "attr/name", "config/on",
     RStateLastUpdated, "config/batter", "battery"}

TzOffsets == {0, 3600}

ItemRuleHandles == {5}

RuleHandles == {-1, 5, 65535, 65541}

----------------------------------------------------------------------------
(* One ResourceItem and the calls on it *)

NoCall ==
    [op |-> "none", empty |-> FALSE, ret |-> FALSE, setCh |-> FALSE, chgCh |-> FALSE]

NoLookup == [str |-> "", found |-> FALSE, descr |-> ResourceItemDescriptor(DataTypeUnknown, RInvalidSuffix, 0, 0)]

\* the addresses of the string buffers where they are not followed
NoStrs == <<>>

\* no request and no response, where the REST API is not called
NoRequest == [path |-> <<>>, content |-> ""]

NoResponse == [list |-> <<>>, httpStatus |-> ""]

\* what a write call was: whether its argument was the empty QVariant, what
\* it returned, and whether it changed lastSet() and lastChanged()
Call(op, empty, ret, before, after) ==
    [op |-> op, empty |-> empty, ret |-> ret,
     setCh |-> after.m_lastSet # before.m_lastSet,
     chgCh |-> after.m_lastChanged # before.m_lastChanged]

InitItem ==
    /\ rItemDescriptors = DescriptorTable
    /\ \E i \in 1..Len(DescriptorTable) :
          /\ DescriptorTable[i].suffix \in ItemSuffixes
          /\ item = ResourceItem(DescriptorTable[i])
    /\ now = 0
    /\ tz \in (IF item.m_rid.type = DataTypeTime THEN TzOffsets ELSE {0})
    /\ last = NoCall
    /\ bags = <<>>
    /\ lookup = NoLookup
    /\ strs = NoStrs
    /\ apiReq = NoRequest
    /\ apiRsp = NoResponse

\* time passes
Tick ==
    /\ now < MaxClock
    /\ now' = now + 1
    /\ UNCHANGED <<rItemDescriptors, item, tz, last, bags, lookup, strs, apiReq, apiRsp>>

WriteCall(op, empty, r) ==
    /\ item' = r.item
    /\ last' = Call(op, empty, r.ret, item, r.item)
    /\ UNCHANGED <<rItemDescriptors, now, tz, bags, lookup, strs, apiReq, apiRsp>>

\* a call that does not write a value
OtherCall(after) ==
    /\ item' = after
    /\ UNCHANGED <<rItemDescriptors, now, tz, last, bags, lookup, strs, apiReq, apiRsp>>

DoSetString(val) ==
    WriteCall("setValueString", FALSE, setValueString(item, val, now))

DoSetNumber(val) ==
    WriteCall("setValueNumber", FALSE, setValueNumber(item, val, now))

DoSetVariant(val) ==
    WriteCall("setValueVariant", ~isValid(val), setValueVariant(item, val, now, tz))

SetString == \E val \in StringInputs : DoSetString(val)

SetNumber == \E val \in NumberInputs(item.m_rid) : DoSetNumber(val)

SetVariant == \E val \in VariantInputs(item.m_rid) : DoSetVariant(val)

ToString == OtherCall(toString(item, tz).item)

ToVariant == OtherCall(toVariant(item, tz).item)

ItemInRule == \E h \in ItemRuleHandles : OtherCall(inRule(item, h))

SetIsPublic == \E pub \in BOOLEAN : OtherCall(setIsPublic(item, pub))

NextItem ==
    \/ Tick
    \/ SetString
    \/ SetNumber
    \/ SetVariant
    \/ ToString
    \/ ToVariant
    \/ ItemInRule
    \/ SetIsPublic

SpecItem == InitItem /\ [][NextItem]_vars

----------------------------------------------------------------------------
(* Properties of the write calls of one item, under SpecItem *)

WriteOps == {"setValueString", "setValueNumber", "setValueVariant"}

\* this step is a write call with one of the values tried
WriteStep ==
    \/ \E val \in StringInputs : DoSetString(val)
    \/ \E val \in NumberInputs(item.m_rid) : DoSetNumber(val)
    \/ \E val \in VariantInputs(item.m_rid) : DoSetVariant(val)

\* the value an item stores: the number and the string buffer
StoredValue(it) == <<it.m_num, it.m_str>>

HasRange(rid) == rid.validMin # 0 \/ rid.validMax # 0

\* lastSet is the time of the call; lastChanged is the time of the call when
\* the stored value changed and is kept otherwise, so that for a call later
\* than the time stamps the item holds, it is the time of the call exactly
\* when the stored value changed
TimestampsFollow ==
    LET changed == StoredValue(item') # StoredValue(item)
    IN /\ item'.m_lastSet = now
       /\ changed => item'.m_lastChanged = now
       /\ ~changed => item'.m_lastChanged = item.m_lastChanged
       /\ item.m_lastChanged < now => (item'.m_lastChanged = now <=> changed)

\* C1 as stated: every accepted setValue call makes lastSet the time of the
\* call, and lastChanged the time of the call iff the stored value changed.
C1_AcceptedWriteStamps ==
    [][(WriteStep /\ last'.ret) => TimestampsFollow]_vars

\* C1, amended: every accepted setValue call other than setValue(QVariant)
\* with the empty variant makes lastSet the time of the call and lastChanged
\* the time of the call iff the stored value (number and string buffer)
\* changed; the empty variant is accepted and makes both time stamps unset.
C1_AcceptedNonEmptyWriteStamps ==
    [][/\ (WriteStep /\ last'.ret /\ ~last'.empty) => TimestampsFollow
       /\ (WriteStep /\ last'.ret /\ last'.empty) =>
              /\ item'.m_lastSet = InvalidTime
              /\ item'.m_lastChanged = InvalidTime]_vars

\* an accepted write that stored the value the item already held, later than
\* the last change: lastSet moved, lastChanged stayed
C1_Witness ==
    /\ last.op = "setValueString" /\ last.ret /\ last.setCh /\ ~last.chgCh
    /\ item.m_lastSet = now
    /\ item.m_lastChanged # InvalidTime /\ item.m_lastChanged < item.m_lastSet

\* C2: on a descriptor with a nonzero range, setValue(qint64 v) returns false
\* iff v < validMin or v > validMax, and then the number, the previous
\* number and both time stamps are what they were.
C2_RangeCheck ==
    [][\A val \in NumberInputs(item.m_rid) :
          (DoSetNumber(val) /\ HasRange(item.m_rid)) =>
              /\ ~last'.ret <=>
                     (val < item.m_rid.validMin \/ val > item.m_rid.validMax)
              /\ ~last'.ret =>
                     /\ item'.m_num = item.m_num
                     /\ item'.m_numPrev = item.m_numPrev
                     /\ item'.m_lastSet = item.m_lastSet
                     /\ item'.m_lastChanged = item.m_lastChanged]_vars

\* a ranged item that holds a value set before was refused a number
C2_Witness ==
    /\ last.op = "setValueNumber" /\ ~last.ret
    /\ HasRange(item.m_rid)
    /\ item.m_num # 0 /\ item.m_lastSet # InvalidTime

\* C3: a write call that returns false leaves the item as it was.
C3_FailedWriteNoMutation ==
    [][(WriteStep /\ ~last'.ret) => item' = item]_vars

\* a variant was refused on an item that holds a value, a rule and a
\* private flag
C3_Witness ==
    /\ last.op = "setValueVariant" /\ ~last.ret
    /\ item.m_lastSet # InvalidTime
    /\ item.m_rulesInvolved # <<>> /\ ~item.m_isPublic

\* C4 as stated: of two accepted setValue(qint64 x) calls in a row at
\* increasing times, both change lastSet, the first changes lastChanged and
\* the second does not.
C4_TwiceInARow ==
    [][(/\ last.op = "setValueNumber" /\ last.ret /\ last.setCh
        /\ item.m_lastSet < now
        /\ DoSetNumber(item.m_num)) =>
           /\ item'.m_lastSet # item.m_lastSet
           /\ last.chgCh
           /\ item'.m_lastChanged = item.m_lastChanged]_vars

\* C4, amended: an accepted setValue(qint64 x) later than the time stamps the
\* item holds changes lastSet, and changes lastChanged exactly when x differs
\* from the number stored before the call; so of two such calls in a row the
\* second never changes lastChanged, and the first does iff x was not stored.
C4_TwiceInARowAmended ==
    [][\A val \in NumberInputs(item.m_rid) :
          (/\ DoSetNumber(val) /\ last'.ret
           /\ item.m_lastSet < now /\ item.m_lastChanged < now) =>
              /\ item'.m_lastSet # item.m_lastSet
              /\ item'.m_lastChanged # item.m_lastChanged <=> val # item.m_num
              /\ (last.op = "setValueNumber" /\ last.ret /\ val = item.m_num) =>
                     item'.m_lastChanged = item.m_lastChanged]_vars

\* the second of two setValue(qint64 x) calls: the number was stored at an
\* earlier time and is stored again
C4_Witness ==
    /\ last.op = "setValueNumber" /\ last.ret /\ last.setCh /\ ~last.chgCh
    /\ item.m_num # 0 /\ item.m_numPrev = item.m_num
    /\ item.m_lastChanged # InvalidTime /\ item.m_lastChanged < item.m_lastSet

\* the kind and value of toVariant() a descriptor's type asks for
VariantOfType(it, res, off) ==
    IF it.m_rid.type \in {DataTypeString, DataTypeTimePattern}
    THEN res.type = "String" /\ res.s = Str(it)
    ELSE IF it.m_rid.type = DataTypeBool
    THEN res.type = "Bool" /\ res.b = (it.m_num # 0)
    ELSE IF it.m_rid.type = DataTypeTime
    THEN res.type = "String" /\ ParseTime(res.s, off).valid
    ELSE res.type = "Double" /\ res.n = it.m_num

\* C5 as stated: toVariant() is the empty variant on an item never written,
\* and after any write that returned true, the empty variant included, it
\* is a value of the kind of the descriptor's type.
C5_VariantAfterWrite ==
    /\ last.op = "none" => toVariant(item, tz).res = VInvalid
    /\ (last.op \in WriteOps /\ last.ret) =>
           /\ isValid(toVariant(item, tz).res)
           /\ VariantOfType(item, toVariant(item, tz).res, tz)

\* C5, amended: toVariant() is the empty variant on an item never written and
\* after setValue(QVariant) with the empty variant; after any other write
\* that returned true it is a value of the kind of the descriptor's type.
C5_VariantAfterNonEmptyWrite ==
    /\ last.op = "none" => toVariant(item, tz).res = VInvalid
    /\ (last.op \in WriteOps /\ last.ret /\ last.empty) =>
           toVariant(item, tz).res = VInvalid
    /\ (last.op \in WriteOps /\ last.ret /\ ~last.empty) =>
           /\ isValid(toVariant(item, tz).res)
           /\ VariantOfType(item, toVariant(item, tz).res, tz)

\* a Time item was given a text by setValue(const QString &): its variant is
\* the formatted time
C5_Witness ==
    /\ last.op = "setValueString" /\ last.ret
    /\ item.m_rid.type = DataTypeTime
    /\ Str(item) = "a"
    /\ toVariant(item, tz).res.type = "String"

\* C11: setValue(const QVariant &) with the invalid QVariant, on an item of
\* any type in any state, returns true, makes lastSet and lastChanged
\* invalid, and leaves the number, the previous number and the string as
\* they were.
C11_EmptyVariantClearsStamps ==
    [][DoSetVariant(VInvalid) =>
          /\ last'.ret
          /\ item'.m_lastSet = InvalidTime
          /\ item'.m_lastChanged = InvalidTime
          /\ item'.m_num = item.m_num
          /\ item'.m_numPrev = item.m_numPrev
          /\ item'.m_str = item.m_str
          /\ toString(item', tz).res = toString(item, tz).res]_vars

\* the invalid QVariant was given to an item that held a number, a previous
\* number and time stamps
C11_Witness ==
    /\ last.op = "setValueVariant" /\ last.empty /\ last.ret
    /\ last.setCh /\ last.chgCh
    /\ item.m_lastSet = InvalidTime /\ item.m_lastChanged = InvalidTime
    /\ item.m_num # 0 /\ item.m_numPrev # 0 /\ item.m_numPrev # item.m_num

\* this step is a toString() or a toVariant() call
ReadStep ==
    \/ OtherCall(toString(item, tz).item)
    \/ OtherCall(toVariant(item, tz).item)

\* what the next call on the item it returns: the results of the reads, and
\* of each write what it returns and the time stamps it leaves
Observe(it) ==
    [reads |-> <<toBool(it), toNumber(it), toNumberPrevious(it),
                 toString(it, tz).res, toVariant(it, tz).res>>,
     setString |-> [val \in StringInputs |->
                       LET r == setValueString(it, val, now)
                       IN <<r.ret, r.item.m_lastSet, r.item.m_lastChanged>>],
     setNumber |-> [val \in NumberInputs(it.m_rid) |->
                       LET r == setValueNumber(it, val, now)
                       IN <<r.ret, r.item.m_lastSet, r.item.m_lastChanged>>],
     setVariant |-> [val \in VariantInputs(it.m_rid) |->
                       LET r == setValueVariant(it, val, now, tz)
                       IN <<r.ret, r.item.m_lastSet, r.item.m_lastChanged>>]]

\* C12: a read changes nothing a later call shows: the call after a
\* toString() or toVariant() returns what it would have returned, and leaves
\* the time stamps it would have left, without the read.
C12_ReadsArePure ==
    [][ReadStep => Observe(item') = Observe(item)]_vars

\* the texts tried that have the format yyyy-MM-ddTHH:mm:ss
TimeTexts == {str \in StringInputs : ParseTime(str, 0).valid}

\* C14: on a Time item, in any time zone, setValue(const QVariant &) with a
\* text t of the format yyyy-MM-ddTHH:mm:ss returns true, and toString()
\* after it is t.
C14_TimeRoundTrip ==
    [][\A str \in TimeTexts :
          (DoSetVariant(VString(str)) /\ item.m_rid.type = DataTypeTime) =>
              /\ last'.ret
              /\ toString(item', tz).res = str]_vars

\* C15: on a descriptor with validMin = 0 and validMax = 0, setValue(qint64
\* v) returns true for every v, and toNumber() after it is v.
C15_NoRangeAcceptsAll ==
    [][\A val \in NumberInputs(item.m_rid) :
          (DoSetNumber(val) /\ ~HasRange(item.m_rid)) =>
              /\ last'.ret
              /\ toNumber(item') = val]_vars

\* a negative number was stored in an unsigned item without range
C15_Witness ==
    /\ last.op = "setValueNumber" /\ last.ret
    /\ item.m_rid.type = DataTypeUInt16 /\ ~HasRange(item.m_rid)
    /\ toNumber(item) = -1

\* the numeric types other than Bool and Time
NumericTypes ==
    {DataTypeUInt8, DataTypeUInt16, DataTypeUInt32, DataTypeUInt64,
     DataTypeInt8, DataTypeInt16, DataTypeInt32}

\* what a write returns and the fields it leaves
Outcome(r) ==
    <<r.ret, r.item.m_num, r.item.m_numPrev, r.item.m_lastSet,
      r.item.m_lastChanged>>

\* C18: on an item of a numeric type other than Bool and Time, in the same
\* state at the same time, setValue(const QVariant &) with an int n and
\* setValue(qint64 n) return the same and leave the same number, previous
\* number, lastSet and lastChanged.
C18_VariantIntAsNumber ==
    item.m_rid.type \in NumericTypes =>
        \A n \in NumberInputs(item.m_rid) :
            Outcome(setValueVariant(item, VInt(n), now, tz))
                = Outcome(setValueNumber(item, n, now))

\* setValue(const QVariant &) stored an int in a numeric item with a range
\* that held another number
C18_Witness ==
    /\ last.op = "setValueVariant" /\ last.ret /\ ~last.empty
    /\ item.m_rid.type \in NumericTypes /\ HasRange(item.m_rid)
    /\ item.m_num = item.m_rid.validMax
    /\ item.m_numPrev # item.m_num /\ item.m_numPrev # 0

\* C20: after every accepted setValue(qint64 v), toNumberPrevious() is what
\* toNumber() was before the call, also when v is the number stored; so
\* after two accepted setValue(qint64 x) in a row, toNumberPrevious() and
\* toNumber() are both x.
C20_PreviousIsBeforeLastWrite ==
    [][\A val \in NumberInputs(item.m_rid) :
          (DoSetNumber(val) /\ last'.ret) =>
              /\ toNumberPrevious(item') = toNumber(item)
              /\ toNumber(item') = val
              /\ (last.op = "setValueNumber" /\ last.ret /\ toNumber(item) = val) =>
                     toNumberPrevious(item') = val]_vars

\* the second of two setValue(qint64 x): the previous number, which was
\* another one, is x
C20_Witness ==
    /\ last.op = "setValueNumber" /\ last.ret /\ ~last.chgCh
    /\ item.m_rid.type = DataTypeUInt8
    /\ toNumber(item) = 100 /\ toNumberPrevious(item) = 100
    /\ item.m_lastSet = now

\* C22: in every state reached from a new item by setValue calls of the
\* three overloads under a clock that never goes back, lastChanged is unset
\* or lastSet is set and lastChanged <= lastSet.
C22_ChangedNotAfterSet ==
    item.m_lastChanged # InvalidTime =>
        /\ item.m_lastSet # InvalidTime
        /\ item.m_lastChanged <= item.m_lastSet

\* an item changed at one time and set again, unchanged, at a later time
C22_Witness ==
    /\ last.op \in WriteOps /\ last.ret /\ last.setCh /\ ~last.chgCh
    /\ item.m_lastChanged # InvalidTime
    /\ item.m_lastChanged < item.m_lastSet

\* C23: an item of a descriptor with a nonzero range holds, as its number
\* and as its previous number, 0 (the initial value) or a value within
\* [validMin, validMax], whatever setValue calls were made on it. Every
\* descriptor of the catalog with a range is of a numeric type, so that the
\* Bool and Time branches of setValue(QVariant), which check no range, are
\* not taken on such an item.
C23_StoredInRange ==
    /\ \A i \in 1..Len(rItemDescriptors) :
           HasRange(rItemDescriptors[i]) =>
               /\ rItemDescriptors[i].type \in NumericTypes
               /\ rItemDescriptors[i].validMin <= rItemDescriptors[i].validMax
    /\ HasRange(item.m_rid) =>
           \A v \in {item.m_num, item.m_numPrev} :
               v = 0 \/ (v >= item.m_rid.validMin /\ v <= item.m_rid.validMax)

\* an item with a range that does not hold 0: both ends of the range were
\* stored, and a write was then refused
C23_Witness ==
    /\ HasRange(item.m_rid) /\ item.m_rid.validMin # 0
    /\ item.m_num = item.m_rid.validMax
    /\ item.m_numPrev = item.m_rid.validMin
    /\ last.op \in {"setValueNumber", "setValueVariant"} /\ ~last.ret

\* the number setValue(QVariant) stores on a Bool item for the truth value b
BoolNumber(b) == IF b THEN 1 ELSE 0

\* C25 as stated: on a Bool item setValue(QVariant(b)) returns true, toBool()
\* is b afterwards, and lastChanged becomes the time of the call iff toBool()
\* before the call was not b.
C25_BoolRewrite ==
    [][\A b \in BOOLEAN :
          (item.m_rid.type = DataTypeBool /\ DoSetVariant(VBool(b))) =>
              /\ last'.ret
              /\ toBool(item') = b
              /\ toBool(item) # b => item'.m_lastChanged = now
              /\ toBool(item) = b =>
                     item'.m_lastChanged = item.m_lastChanged]_vars

\* C25, amended: on a Bool item setValue(QVariant(b)) returns true, toBool()
\* is b afterwards, and lastChanged becomes the time of the call iff
\* toNumber() before the call was not the number of b (1 for true, 0 for
\* false); a rewrite of the same truth value is a change exactly when the
\* number stored was neither 0 nor 1.
C25_BoolRewriteByNumber ==
    [][\A b \in BOOLEAN :
          (item.m_rid.type = DataTypeBool /\ DoSetVariant(VBool(b))) =>
              /\ last'.ret
              /\ toBool(item') = b
              /\ toNumber(item') = BoolNumber(b)
              /\ toNumber(item) # BoolNumber(b) => item'.m_lastChanged = now
              /\ toNumber(item) = BoolNumber(b) =>
                     item'.m_lastChanged = item.m_lastChanged
              /\ (toBool(item) = b /\ toNumber(item) \in {0, 1}) =>
                     item'.m_lastChanged = item.m_lastChanged]_vars

\* a Bool item that held -1, which reads as true, was written true at a
\* later time: the number is now 1 and lastChanged is the time of the call
C25_Witness ==
    /\ item.m_rid.type = DataTypeBool
    /\ last.op = "setValueVariant" /\ last.ret /\ last.chgCh
    /\ item.m_num = 1 /\ item.m_numPrev = -1
    /\ item.m_lastChanged = now /\ now > 0

----------------------------------------------------------------------------
(* One ResourceItem and the rules it is marked with *)

DoInRule(ruleHandle) ==
    /\ Len(item.m_rulesInvolved) < MaxRules
    /\ OtherCall(inRule(item, ruleHandle))

InRule == \E ruleHandle \in RuleHandles : DoInRule(ruleHandle)

NextRule == InRule

SpecRule == InitItem /\ [][NextRule]_vars

\* ruleHandle is one of the handles recorded
Recorded(it, ruleHandle) ==
    \E i \in 1..Len(it.m_rulesInvolved) : it.m_rulesInvolved[i] = ruleHandle

\* C10: inRule(ruleHandle) appends ruleHandle iff it is not recorded yet, for
\* every int ruleHandle, and leaves the handles recorded before in place.
C10_AppendsIffAbsent ==
    [][\A ruleHandle \in RuleHandles :
          DoInRule(ruleHandle) =>
              item'.m_rulesInvolved =
                  IF Recorded(item, ruleHandle)
                  THEN item.m_rulesInvolved
                  ELSE Append(item.m_rulesInvolved, ruleHandle)]_vars

----------------------------------------------------------------------------
(* A Resource, its copy, and the calls on them *)

InitBag ==
    /\ rItemDescriptors = DescriptorTable
    /\ item = ResourceItem(DescriptorTable[1])
    /\ now = 0
    /\ tz = 0
    /\ last = NoCall
    /\ bags = [b \in {"r"} |-> Resource(RSensors)]
    /\ lookup = NoLookup
    /\ strs = NoStrs
    /\ apiReq = NoRequest
    /\ apiRsp = NoResponse

\* what an addItem or removeItem call was, and the pointer it returned
BagCall(op, b, type, suffix, res) ==
    [op |-> op, bag |-> b, type |-> type, suffix |-> suffix, res |-> res]

DoAddItem(b, type, suffix, realloc) ==
    LET a == addItem(bags[b], type, suffix, realloc, tz)
    IN /\ bags' = [bags EXCEPT ![b] = a.r]
       /\ last' = BagCall("addItem", b, type, suffix, a.res)
       /\ UNCHANGED <<rItemDescriptors, item, now, tz, lookup, strs, apiReq, apiRsp>>

DoRemoveItem(b, suffix) ==
    /\ bags' = [bags EXCEPT ![b] = removeItem(bags[b], suffix, tz)]
    /\ last' = BagCall("removeItem", b, DataTypeUnknown, suffix, 0)
    /\ UNCHANGED <<rItemDescriptors, item, now, tz, lookup, strs, apiReq, apiRsp>>

AddItem ==
    \E b \in DOMAIN bags, req \in BagRequests, realloc \in BOOLEAN :
        DoAddItem(b, req[1], req[2], realloc)

RemoveItem ==
    \E b \in DOMAIN bags, suffix \in BagSuffixes : DoRemoveItem(b, suffix)

\* Resource copy(r)
CopyBag ==
    /\ DOMAIN bags = {"r"}
    /\ LET c == ResourceCopy(bags["r"], tz)
       IN bags' = [b \in BagIds |-> IF b = "r" THEN c.other ELSE c.r]
    /\ last' = NoCall
    /\ UNCHANGED <<rItemDescriptors, item, now, tz, lookup, strs, apiReq, apiRsp>>

\* item(suffix)->setValue(QString) by a caller that tests the pointer
BagSetString ==
    \E b \in DOMAIN bags, suffix \in BagSuffixes, val \in {"a"} :
        LET i == Resource_item(bags[b], suffix)
        IN /\ i # 0
           /\ bags' = [bags EXCEPT ![b].m_rItems[i] =
                          setValueString(@, val, now).item]
           /\ last' = NoCall
           /\ UNCHANGED <<rItemDescriptors, item, now, tz, lookup, strs, apiReq, apiRsp>>

NextBag ==
    \/ AddItem
    \/ RemoveItem
    \/ CopyBag
    \/ BagSetString

SpecBag == InitBag /\ [][NextBag]_vars

\* C6: a Resource holds at most one item per suffix.
C6_OneItemPerSuffix ==
    \A b \in DOMAIN bags :
        \A i, j \in 1..itemCount(bags[b]) :
            i # j => bags[b].m_rItems[i].m_rid.suffix
                       # bags[b].m_rItems[j].m_rid.suffix

\* after a removeItem and a copy, the copy was asked to add a suffix it
\* holds, and holds three items
C6_Witness ==
    /\ DOMAIN bags = BagIds
    /\ last.op = "addItem" /\ last.bag = "copy" /\ last.res = 1
    /\ itemCount(bags["copy"]) = 3
    /\ itemCount(bags["r"]) = 2

\* C7: addItem(type, suffix) on a Resource that holds an item with the suffix
\* returns that item, whatever the type asked for, and leaves the Resource
\* and every item of it as they were.
C7_AddItemIdempotent ==
    [][\A realloc \in BOOLEAN :
          (/\ last'.op = "addItem"
           /\ DoAddItem(last'.bag, last'.type, last'.suffix, realloc)
           /\ Resource_item(bags[last'.bag], last'.suffix) # 0) =>
              /\ last'.res = Resource_item(bags[last'.bag], last'.suffix)
              /\ itemCount(bags'[last'.bag]) = itemCount(bags[last'.bag])
              /\ bags' = bags]_vars

\* addItem returned an item of another type than asked for, which had been
\* written to
C7_Witness ==
    /\ last.op = "addItem" /\ last.res # 0
    /\ bags[last.bag].m_rItems[last.res].m_rid.suffix = last.suffix
    /\ bags[last.bag].m_rItems[last.res].m_rid.type # last.type
    /\ bags[last.bag].m_rItems[last.res].m_lastSet # InvalidTime
    /\ itemCount(bags[last.bag]) = 3

\* C8: after removeItem(suffix), item(suffix) is the null pointer, and it
\* stays the null pointer until an addItem for the suffix returns an item.
C8_RemovedIsAbsent ==
    [][\A b \in DOMAIN bags, suffix \in BagSuffixes :
          /\ (last'.op = "removeItem" /\ DoRemoveItem(b, suffix)) =>
                 Resource_item(bags'[b], suffix) = 0
          /\ (/\ Resource_item(bags[b], suffix) = 0
              /\ Resource_item(bags'[b], suffix) # 0) =>
                 /\ last'.op = "addItem" /\ last'.bag = b
                 /\ last'.suffix = suffix /\ last'.res # 0
                 /\ \E req \in BagRequests, realloc \in BOOLEAN :
                        req[2] = suffix /\ DoAddItem(b, req[1], req[2], realloc)]_vars

\* the first of three items was removed: the last item took its place
C8_Witness ==
    /\ last.op = "removeItem"
    /\ Resource_item(bags[last.bag], last.suffix) = 0
    /\ itemCount(bags[last.bag]) = 2
    /\ last.suffix = "state/on"
    /\ bags[last.bag].m_rItems[1].m_rid.suffix = RStateLastUpdated
    /\ bags[last.bag].m_rItems[1].m_lastSet # InvalidTime

----------------------------------------------------------------------------
(* The catalog and the lookups in it *)

InitCatalog ==
    /\ rItemDescriptors = <<>>
    /\ item = ResourceItem(DescriptorTable[1])
    /\ now = 0
    /\ tz = 0
    /\ last = NoCall
    /\ bags = <<>>
    /\ lookup = NoLookup
    /\ strs = NoStrs
    /\ apiReq = NoRequest
    /\ apiRsp = NoResponse

InitResourceDescriptors ==
    /\ rItemDescriptors' = initResourceDescriptors
    /\ UNCHANGED <<item, now, tz, last, bags, lookup, strs, apiReq, apiRsp>>

\* a lookup whose descr is the one the lookup before left
DoLookup(str) ==
    LET g == getResourceItemDescriptor(rItemDescriptors, str, lookup.descr)
    IN /\ lookup' = [str |-> str, found |-> g.ret, descr |-> g.descr]
       /\ UNCHANGED <<rItemDescriptors, item, now, tz, last, bags, strs, apiReq, apiRsp>>

Lookup == \E p \in KeyPrefixes, e \in KeyEndings : DoLookup(p \o e)

NextCatalog ==
    \/ InitResourceDescriptors
    \/ Lookup

SpecCatalog == InitCatalog /\ [][NextCatalog]_vars

\* str is some text followed by suffix
EndsIn(str, suffix) ==
    \E k \in 0..Len(str) : str = SubSeq(str, 1, k) \o suffix

\* the entries of the table whose suffix str ends in
Matches(table, str) == {i \in 1..Len(table) : EndsIn(str, table[i].suffix)}

\* C9: the lookup finds a descriptor exactly when the key ends in a suffix of
\* the table, and then it is the first such entry of the table; so it finds
\* config/battery for "config/battery" and "xyz/config/battery" and not for
\* "/sensors/1/state/battery".
C9_LookupEndsWith ==
    [][\A p \in KeyPrefixes, e \in KeyEndings :
          DoLookup(p \o e) =>
              LET hits == Matches(rItemDescriptors, p \o e)
              IN /\ lookup'.found <=> hits # {}
                 /\ hits # {} =>
                        \E i \in hits :
                            /\ \A j \in hits : i <= j
                            /\ lookup'.descr = rItemDescriptors[i]
                 /\ hits = {} => lookup'.descr = lookup.descr
                 /\ (p \o e \in {"config/battery", "xyz/config/battery"}
                       /\ rItemDescriptors # <<>>) =>
                        lookup'.found /\ lookup'.descr.suffix = RConfigBattery
                 /\ p \o e = "/sensors/1/state/battery" =>
                        ~(lookup'.found /\ lookup'.descr.suffix = RConfigBattery)]_vars

\* a key longer than the suffix found the descriptor of config/battery in
\* the filled table
C9_Witness ==
    /\ rItemDescriptors # <<>>
    /\ lookup.str = "xyz/config/battery"
    /\ lookup.found
    /\ lookup.descr = ResourceItemDescriptor(DataTypeUInt8, RConfigBattery, 0, 100)

\* the table in the opposite order of registration
Reversed(table) == [i \in 1..Len(table) |-> table[Len(table) + 1 - i]]

\* C24: in the catalog no suffix is the ending of the suffix of another
\* entry; so every key looked up ends in the suffix of at most one entry, and
\* the lookup gives the same result on the table registered in the opposite
\* order.
C24_NoSuffixEndsAnother ==
    /\ \A i \in 1..Len(rItemDescriptors), j \in 1..Len(rItemDescriptors) :
           i # j => ~EndsIn(rItemDescriptors[j].suffix,
                           rItemDescriptors[i].suffix)
    /\ \A p \in KeyPrefixes, e \in KeyEndings :
           /\ Cardinality(Matches(rItemDescriptors, p \o e)) <= 1
           /\ getResourceItemDescriptor(Reversed(rItemDescriptors), p \o e,
                                        lookup.descr)
                = getResourceItemDescriptor(rItemDescriptors, p \o e,
                                            lookup.descr)

\* a key that ends in state/on found the one descriptor it ends in
C24_Witness ==
    /\ rItemDescriptors # <<>>
    /\ lookup.str = "/sensors/1/state/on"
    /\ lookup.found
    /\ lookup.descr.suffix = "state/on"
    /\ Cardinality(Matches(rItemDescriptors, lookup.str)) = 1

----------------------------------------------------------------------------
(* One Resource, the calls on it and on its items *)

\* what an itemForIndex call was, and the pointer it returned
IndexCall(b, idx, res) ==
    [op |-> "itemForIndex", bag |-> b, idx |-> idx, res |-> res]

AddItemAny ==
    \E req \in OneBagRequests, realloc \in BOOLEAN :
        DoAddItem("r", req[1], req[2], realloc)

DoItemForIndex(b, idx) ==
    /\ last' = IndexCall(b, idx, itemForIndex(bags[b], idx))
    /\ UNCHANGED <<rItemDescriptors, item, now, tz, bags, lookup, strs, apiReq, apiRsp>>

ItemForIndex == \E idx \in BagIndices : DoItemForIndex("r", idx)

\* item(suffix)->inRule(ruleHandle) by a caller that tests the pointer
BagInRule ==
    \E suffix \in BagSuffixes, ruleHandle \in ItemRuleHandles :
        LET i == Resource_item(bags["r"], suffix)
        IN /\ i # 0
           /\ bags' = [bags EXCEPT !["r"].m_rItems[i] = inRule(@, ruleHandle)]
           /\ last' = NoCall
           /\ UNCHANGED <<rItemDescriptors, item, now, tz, lookup, strs, apiReq, apiRsp>>

\* item(suffix)->setIsPublic(false) by a caller that tests the pointer
BagSetIsPublic ==
    \E suffix \in BagSuffixes :
        LET i == Resource_item(bags["r"], suffix)
        IN /\ i # 0
           /\ bags' = [bags EXCEPT !["r"].m_rItems[i] = setIsPublic(@, FALSE)]
           /\ last' = NoCall
           /\ UNCHANGED <<rItemDescriptors, item, now, tz, lookup, strs, apiReq, apiRsp>>

NextOneBag ==
    \/ AddItemAny
    \/ RemoveItem
    \/ BagSetString
    \/ BagInRule
    \/ BagSetIsPublic
    \/ ItemForIndex

SpecOneBag == InitBag /\ [][NextOneBag]_vars

\* the catalog holds a descriptor of exactly this type and suffix
InCatalog(type, suffix) ==
    \E i \in 1..Len(rItemDescriptors) :
        /\ rItemDescriptors[i].suffix = suffix
        /\ rItemDescriptors[i].type = type

\* C13: for a suffix the Resource does not hold, addItem(type, suffix) adds
\* an item iff the catalog holds a descriptor of exactly that suffix and
\* type; when it holds none the error is reported, the null pointer is
\* returned and the Resource is as before.
C13_AddsIffInCatalog ==
    [][\A req \in OneBagRequests, realloc \in BOOLEAN :
          (/\ last'.op = "addItem"
           /\ DoAddItem("r", req[1], req[2], realloc)
           /\ Resource_item(bags["r"], req[2]) = 0) =>
              LET a == addItem(bags["r"], req[1], req[2], realloc, tz)
                  n == itemCount(bags["r"])
              IN /\ itemCount(bags'["r"]) = n + 1 <=> InCatalog(req[1], req[2])
                 /\ InCatalog(req[1], req[2]) =>
                        /\ last'.res = n + 1 /\ ~a.err
                        /\ \E i \in 1..Len(rItemDescriptors) :
                               /\ rItemDescriptors[i].suffix = req[2]
                               /\ rItemDescriptors[i].type = req[1]
                               /\ bags'["r"].m_rItems[n + 1] =
                                      ResourceItem(rItemDescriptors[i])
                 /\ ~InCatalog(req[1], req[2]) =>
                        /\ a.err /\ last'.res = 0
                        /\ bags' = bags]_vars

\* a Resource of two items was asked for a suffix it does not hold with the
\* type of another descriptor, and returned the null pointer
C13_Witness ==
    /\ last.op = "addItem" /\ last.res = 0
    /\ last.suffix = "attr/name" /\ last.type = DataTypeBool
    /\ Resource_item(bags["r"], "attr/name") = 0
    /\ itemCount(bags["r"]) = 2

\* C16: itemForIndex(idx) returns an item iff idx < itemCount(), and the null
\* pointer otherwise, and leaves the Resource as it is; the indices below
\* itemCount() give every item of the Resource, each once.
C16_ItemForIndex ==
    [][\A idx \in BagIndices :
          DoItemForIndex("r", idx) =>
              LET r == bags["r"]
                  below == 0..(itemCount(r) - 1)
              IN /\ last'.res # 0 <=> idx \in below
                 /\ bags' = bags
                 /\ {itemForIndex(r, i) : i \in below} = 1..itemCount(r)
                 /\ \A i, j \in below :
                        itemForIndex(r, i) = itemForIndex(r, j) => i = j]_vars

\* the last of three items was asked for by its index
C16_Witness ==
    /\ last.op = "itemForIndex" /\ last.idx = 2 /\ last.res = 3
    /\ itemCount(bags["r"]) = 3

\* the same item as far as its descriptor and the reads show
SameItem(a, b) ==
    /\ a.m_rid = b.m_rid
    /\ toNumber(a) = toNumber(b)
    /\ toNumberPrevious(a) = toNumberPrevious(b)
    /\ toString(a, tz).res = toString(b, tz).res
    /\ a.m_lastSet = b.m_lastSet
    /\ a.m_lastChanged = b.m_lastChanged
    /\ isPublic(a) = isPublic(b)
    /\ rulesInvolved(a) = rulesInvolved(b)

\* C19: removeItem(suffix) on a Resource that holds the suffix at index k
\* makes itemCount() one less, puts the item that was last at index k (when k
\* was not the last index) with its descriptor, number, previous number,
\* string, time stamps, isPublic and rulesInvolved, and leaves every other
\* item below the last index where and as it was. The string is what
\* toString() returns: the buffer of the item moved is a new one that holds
\* that text.
C19_SwapAndPop ==
    [][\A suffix \in BagSuffixes :
          (/\ last'.op = "removeItem"
           /\ DoRemoveItem("r", suffix)
           /\ Resource_item(bags["r"], suffix) # 0) =>
              LET k == Resource_item(bags["r"], suffix)
                  n == itemCount(bags["r"])
                  old == bags["r"].m_rItems
                  new == bags'["r"].m_rItems
              IN /\ itemCount(bags'["r"]) = n - 1
                 /\ k # n =>
                        /\ SameItem(new[k], old[n])
                        /\ new[k] = [old[n] EXCEPT !.m_str =
                                        IF HasStr(old[n])
                                        THEN <<toString(old[n], tz).res>>
                                        ELSE <<>>]
                 /\ \A i \in 1..(n - 1) : i # k => new[i] = old[i]]_vars

\* the first of three items was removed, and the last, a Time item that was
\* written to, marked with a rule and made private, took its place
C19_Witness ==
    /\ last.op = "removeItem" /\ last.suffix = "attr/name"
    /\ itemCount(bags["r"]) = 2
    /\ bags["r"].m_rItems[1].m_rid.suffix = RStateLastUpdated
    /\ bags["r"].m_rItems[2].m_rid.suffix = "state/on"
    /\ bags["r"].m_rItems[1].m_lastSet # InvalidTime
    /\ rulesInvolved(bags["r"].m_rItems[1]) # <<>>
    /\ ~isPublic(bags["r"].m_rItems[1])

\* C17: after initResourceDescriptors(), called once or again, no two
\* descriptors of the catalog have the same suffix.
C17_NoDuplicateSuffix ==
    \A i, j \in 1..Len(rItemDescriptors) :
        i # j => rItemDescriptors[i].suffix # rItemDescriptors[j].suffix

\* the table was filled, and a lookup found a descriptor in it
C17_Witness ==
    /\ Len(rItemDescriptors) = Len(DescriptorTable)
    /\ Len(rItemDescriptors) > 100
    /\ lookup.str = "/lights/2/state/on" /\ lookup.found

----------------------------------------------------------------------------
(* Two Resources, their items, and the string buffers the items point to *)

\* the suffixes the two Resources are asked for: a String and a Time
\* descriptor of the catalog
CopySuffixes == {"attr/name", RStateLastUpdated}

CopyRequests ==
    {<<DataTypeString, "attr/name">>, <<DataTypeTime, RStateLastUpdated>>}

\* the items written as strings, written as numbers, and used by a rule
CopyStringSuffixes == CopySuffixes

CopyNumberSuffixes == {RStateLastUpdated}

CopyRuleSuffixes == {"attr/name"}

\* the buffers in use: the addresses that m_str of some item holds
UsedStrs(s) ==
    UNION {{s[b][i] : i \in 1..Len(s[b])} : b \in DOMAIN s} \ {0}

\* new QString, n times over: n addresses that no buffer in use has
RECURSIVE NewStrs(_, _)
NewStrs(used, n) ==
    IF n = 0
    THEN <<>>
    ELSE LET a == CHOOSE a \in 1..(Cardinality(used) + 1) : a \notin used
         IN <<a>> \o NewStrs(used \cup {a}, n - 1)

\* m_str of a new item: new QString for the types that have a string
ResourceItemStr(rid, fresh) ==
    IF rid.type \in {DataTypeString, DataTypeTime, DataTypeTimePattern}
    THEN fresh ELSE 0

\* operator= that takes the pointer of the other item
operatorAssignStr_Shared(otherStr, fresh) == otherStr

\* m_str of the item assigned to by operator=: nullptr, or a new QString
\* when the other item has a buffer
operatorAssignStr(otherStr, fresh) == IF otherStr # 0 THEN fresh ELSE 0

\* the pointers of the items copied one by one from the items that hold addrs
CopyStrs(addrs, used) ==
    [i \in 1..Len(addrs) |->
        operatorAssignStr(addrs[i], NewStrs(used, Len(addrs))[i])]

\* a buffer is one object: what item i of bags b holds in *m_str is what
\* every item holds whose m_str is the same address
Through(bs, s, b, i) ==
    [c \in DOMAIN bs |->
        [bs[c] EXCEPT !.m_rItems =
            [j \in 1..Len(bs[c].m_rItems) |->
                IF s[b][i] # 0 /\ s[c][j] = s[b][i]
                THEN [bs[c].m_rItems[j] EXCEPT
                         !.m_str = bs[b].m_rItems[i].m_str]
                ELSE bs[c].m_rItems[j]]]]

\* the addresses named by the order in which the items of r and of the copy
\* hold them: the program never looks at an address, only through it
Canon(s) ==
    LET flat == IF "copy" \in DOMAIN s THEN s["r"] \o s["copy"] ELSE s["r"]
        first(a) == CHOOSE k \in 1..Len(flat) :
                        flat[k] = a /\ \A l \in 1..(k - 1) : flat[l] # a
        rank(a) == Cardinality({flat[l] : l \in 1..first(a)} \ {0})
    IN [b \in DOMAIN s |->
           [i \in 1..Len(s[b]) |->
               IF s[b][i] = 0 THEN 0 ELSE rank(s[b][i])]]

\* what a call on a Resource or on one of its items was
CopyCall(op, b) == [op |-> op, bag |-> b]

InitCopy ==
    /\ rItemDescriptors = DescriptorTable
    /\ item = ResourceItem(DescriptorTable[1])
    /\ now = 0
    /\ tz = 0
    /\ last = CopyCall("none", "r")
    /\ bags = [b \in {"r"} |-> Resource(RSensors)]
    /\ lookup = NoLookup
    /\ strs = [b \in {"r"} |-> <<>>]
    /\ apiReq = NoRequest
    /\ apiRsp = NoResponse

\* addItem(type, suffix): emplace_back builds the item with a buffer of its
\* own, and on reallocation copies every item to a new place
CopyAddItem ==
    \E b \in DOMAIN bags, req \in CopyRequests, realloc \in BOOLEAN :
        LET a == addItem(bags[b], req[1], req[2], realloc, tz)
            n == Len(bags[b].m_rItems)
            fresh == NewStrs(UsedStrs(strs), n + 1)
            kept == IF realloc
                    THEN [i \in 1..n |->
                             operatorAssignStr(strs[b][i], fresh[i])]
                    ELSE strs[b]
        IN /\ bags' = [bags EXCEPT ![b] = a.r]
           /\ strs' = IF Len(a.r.m_rItems) = n + 1
                      THEN Canon([strs EXCEPT ![b] =
                               Append(kept,
                                      ResourceItemStr(a.r.m_rItems[n + 1].m_rid,
                                                      fresh[n + 1]))])
                      ELSE strs
           /\ last' = CopyCall("call", b)
           /\ UNCHANGED <<rItemDescriptors, item, now, tz, lookup, apiReq, apiRsp>>

\* removeItem(suffix): *i = m_rItems.back() gives item i a new buffer, and
\* pop_back() destroys the last item and its buffer
CopyRemoveItem ==
    \E b \in DOMAIN bags, suffix \in CopySuffixes :
        LET k == IndexOfSuffix(bags[b].m_rItems, suffix)
            n == Len(bags[b].m_rItems)
            fresh == NewStrs(UsedStrs(strs), 1)
        IN /\ bags' = [bags EXCEPT ![b] = removeItem(@, suffix, tz)]
           /\ strs' = Canon([strs EXCEPT ![b] =
                          IF k = 0 THEN @
                          ELSE IF k = n THEN SubSeq(@, 1, n - 1)
                          ELSE [SubSeq(@, 1, n - 1) EXCEPT
                                   ![k] = operatorAssignStr(strs[b][n],
                                                            fresh[1])]])
           /\ last' = CopyCall("call", b)
           /\ UNCHANGED <<rItemDescriptors, item, now, tz, lookup, apiReq, apiRsp>>

\* Resource copy(r): m_rItems = other.m_rItems copies the items one by one
CopyResource ==
    /\ DOMAIN bags = {"r"}
    /\ LET c == ResourceCopy(bags["r"], tz)
       IN /\ bags' = [b \in BagIds |-> IF b = "r" THEN c.other ELSE c.r]
          /\ strs' = Canon([b \in BagIds |->
                               IF b = "r" THEN strs["r"]
                               ELSE CopyStrs(strs["r"], UsedStrs(strs))])
    /\ last' = CopyCall("copy", "copy")
    /\ UNCHANGED <<rItemDescriptors, item, now, tz, lookup, apiReq, apiRsp>>

\* *b.item(suffix) = *c.item(suffix) by a caller that tests the pointers;
\* with b = c it is the self assignment, which returns at once
AssignItem ==
    \E b \in DOMAIN bags, c \in DOMAIN bags, suffix \in CopySuffixes :
        LET i == Resource_item(bags[b], suffix)
            j == Resource_item(bags[c], suffix)
            a == operatorAssign(bags[c].m_rItems[j], tz)
            fresh == NewStrs(UsedStrs(strs), 1)
        IN /\ i # 0
           /\ j # 0
           /\ bags' = IF b = c THEN bags
                      ELSE Through([bags EXCEPT ![b].m_rItems[i] = a.item,
                                                ![c].m_rItems[j] = a.other],
                                   strs, c, j)
           /\ strs' = IF b = c THEN strs
                      ELSE Canon([strs EXCEPT ![b][i] =
                                     operatorAssignStr(strs[c][j], fresh[1])])
           /\ last' = CopyCall(IF b = c THEN "call" ELSE "assign", b)
           /\ UNCHANGED <<rItemDescriptors, item, now, tz, lookup, apiReq, apiRsp>>

\* item(suffix)->setValue(QString) by a caller that tests the pointer
CopySetString ==
    \E b \in DOMAIN bags, suffix \in CopyStringSuffixes, val \in {"a"} :
        LET i == Resource_item(bags[b], suffix)
        IN /\ i # 0
           /\ bags' = Through([bags EXCEPT ![b].m_rItems[i] =
                                  setValueString(@, val, now).item],
                              strs, b, i)
           /\ last' = CopyCall("call", b)
           /\ UNCHANGED <<rItemDescriptors, item, now, tz, lookup, strs, apiReq, apiRsp>>

\* item(suffix)->setValue(qint64) by a caller that tests the pointer
CopySetNumber ==
    \E b \in DOMAIN bags, suffix \in CopyNumberSuffixes, val \in {1000} :
        LET i == Resource_item(bags[b], suffix)
        IN /\ i # 0
           /\ bags' = [bags EXCEPT ![b].m_rItems[i] =
                          setValueNumber(@, val, now).item]
           /\ last' = CopyCall("call", b)
           /\ UNCHANGED <<rItemDescriptors, item, now, tz, lookup, strs, apiReq, apiRsp>>

\* item(suffix)->inRule(ruleHandle) by a caller that tests the pointer
CopyInRule ==
    \E b \in DOMAIN bags, suffix \in CopyRuleSuffixes,
       ruleHandle \in ItemRuleHandles :
        LET i == Resource_item(bags[b], suffix)
        IN /\ i # 0
           /\ bags' = [bags EXCEPT ![b].m_rItems[i] = inRule(@, ruleHandle)]
           /\ last' = CopyCall("call", b)
           /\ UNCHANGED <<rItemDescriptors, item, now, tz, lookup, strs, apiReq, apiRsp>>

NextCopy ==
    \/ CopyAddItem
    \/ CopyRemoveItem
    \/ CopyResource
    \/ AssignItem
    \/ CopySetString
    \/ CopySetNumber
    \/ CopyInRule

SpecCopy == InitCopy /\ [][NextCopy]_vars

\* no two items point to the same buffer, and an item points to a buffer
\* exactly when it holds a string
OwnStrs(bs, s) ==
    /\ \A b \in DOMAIN bs : \A i \in 1..Len(bs[b].m_rItems) :
           (s[b][i] # 0) <=> HasStr(bs[b].m_rItems[i])
    /\ \A b \in DOMAIN bs, c \in DOMAIN bs :
           \A i \in 1..Len(s[b]), j \in 1..Len(s[c]) :
               (s[b][i] # 0 /\ s[b][i] = s[c][j]) => (b = c /\ i = j)

\* every read of every item of the Resource gives what it gave before
SameReads(r1, r2) ==
    /\ Len(r1.m_rItems) = Len(r2.m_rItems)
    /\ \A i \in 1..Len(r1.m_rItems) : SameItem(r1.m_rItems[i], r2.m_rItems[i])

\* C21: copies are independent. After Resource copy(r) the copy holds the
\* items of r, equal in every field (descriptor, number, previous number,
\* string, time stamps, isPublic, rulesInvolved), and after *a = *b item a
\* equals item b in every field; the Resource or item copied from reads as
\* before. A later setValue, inRule, addItem or removeItem on one Resource
\* leaves the other as it was, whichever of the two is called, and no two
\* items ever point to the same string buffer.
C21_CopiesIndependent ==
    [][ /\ last'.op = "copy" =>
              /\ bags'["copy"] = bags'["r"]
              /\ SameReads(bags'["r"], bags["r"])
        /\ last'.op = "assign" =>
              \E c \in DOMAIN bags \ {last'.bag}, suffix \in CopySuffixes :
                  LET i == Resource_item(bags[last'.bag], suffix)
                      j == Resource_item(bags[c], suffix)
                  IN /\ i # 0
                     /\ j # 0
                     /\ bags'[last'.bag].m_rItems[i] = bags'[c].m_rItems[j]
                     /\ \A k \in 1..Len(bags[last'.bag].m_rItems) \ {i} :
                            bags'[last'.bag].m_rItems[k]
                              = bags[last'.bag].m_rItems[k]
                     /\ SameReads(bags'[c], bags[c])
        /\ last'.op = "call" =>
              \A c \in DOMAIN bags \ {last'.bag} : bags'[c] = bags[c]
        /\ OwnStrs(bags', strs')
      ]_vars

\* a Resource was copied with its two items written, and the name of the
\* copy was then written and used by a rule while the original's name stays
\* as it was
C21_Witness ==
    /\ DOMAIN bags = BagIds
    /\ last = CopyCall("call", "copy")
    /\ \E i \in 1..2, j \in 1..2 :
          /\ Len(bags["r"].m_rItems) = 2
          /\ Len(bags["copy"].m_rItems) = 2
          /\ bags["r"].m_rItems[i].m_rid.suffix = "attr/name"
          /\ bags["copy"].m_rItems[i].m_rid.suffix = "attr/name"
          /\ bags["r"].m_rItems[j].m_rid.suffix = RStateLastUpdated
          /\ bags["r"].m_rItems[j].m_num = 1000
          /\ bags["copy"].m_rItems[j] = bags["r"].m_rItems[j]
          /\ Str(bags["r"].m_rItems[i]) = ""
          /\ Str(bags["copy"].m_rItems[i]) = "a"
          /\ rulesInvolved(bags["copy"].m_rItems[i]) = <<5>>
          /\ rulesInvolved(bags["r"].m_rItems[i]) = <<>>

----------------------------------------------------------------------------
(* RestDevices: PUT /api/<apikey>/devices/<uniqueid>/installcode *)

REQ_READY_SEND == "REQ_READY_SEND"

HttpStatusOk == "HttpStatusOk"

HttpStatusBadRequest == "HttpStatusBadRequest"

ERR_INVALID_JSON == "ERR_INVALID_JSON"

ERR_MISSING_PARAMETER == "ERR_MISSING_PARAMETER"

ERR_INVALID_VALUE == "ERR_INVALID_VALUE"

\* what Json::parse gives: ok, and the QVariant, which is a map (a JSON
\* object), a list, a string, or invalid
JsonDoc(ok, kind, map) == [ok |-> ok, kind |-> kind, map |-> map]

\* the bodies sent, and what Json::parse makes of each: no text and broken
\* text, documents that are no object, objects without installcode, and
\* objects whose installcode is a string, a blank string, a number, a truth
\* value, null or an object; the last is a text the parser refuses after it
\* read an object
ContentTable ==
    << <<"", JsonDoc(FALSE, "Invalid", <<>>)>>,
       <<"{", JsonDoc(FALSE, "Invalid", <<>>)>>,
       <<"null", JsonDoc(TRUE, "Invalid", <<>>)>>,
       <<"[]", JsonDoc(TRUE, "List", <<>>)>>,
       <<"\"abc\"", JsonDoc(TRUE, "String", <<>>)>>,
       <<"{}", JsonDoc(TRUE, "Map", <<>>)>>,
       <<"{\"a\":1}", JsonDoc(TRUE, "Map", [a |-> VInt(1)])>>,
       <<"{\"installcode\":\"abc\"}",
         JsonDoc(TRUE, "Map", [installcode |-> VString("abc")])>>,
       <<"{\"installcode\":\" abc\\t\"}",
         JsonDoc(TRUE, "Map", [installcode |-> VString(" abc\t")])>>,
       <<"{\"installcode\":\"abc\",\"a\":1}",
         JsonDoc(TRUE, "Map", [installcode |-> VString("abc"), a |-> VInt(1)])>>,
       <<"{\"installcode\":\"\"}",
         JsonDoc(TRUE, "Map", [installcode |-> VString("")])>>,
       <<"{\"installcode\":\" \\t \"}",
         JsonDoc(TRUE, "Map", [installcode |-> VString(" \t ")])>>,
       <<"{\"installcode\":5}",
         JsonDoc(TRUE, "Map", [installcode |-> VInt(5)])>>,
       <<"{\"installcode\":true}",
         JsonDoc(TRUE, "Map", [installcode |-> VBool(TRUE)])>>,
       <<"{\"installcode\":null}",
         JsonDoc(TRUE, "Map", [installcode |-> VInvalid])>>,
       <<"{\"installcode\":{}}",
         JsonDoc(TRUE, "Map", [installcode |-> VMap])>>,
       <<"{\"installcode\":\"abc\"}}",
         JsonDoc(FALSE, "Map", [installcode |-> VString("abc")])>> >>

Contents == {ContentTable[i][1] : i \in 1..Len(ContentTable)}

UniqueIds == {"00:21:2e:ff:ff:00:aa:bb", "00:21", ""}

\* QVariant Json::parse(const QString &, bool &ok)
JsonParse(content) ==
    LET i == CHOOSE i \in 1..Len(ContentTable) : ContentTable[i][1] = content
    IN ContentTable[i][2]

\* QVariant::toMap(): the map of a map, the empty map of anything else
toMap(var) == IF var.kind = "Map" THEN var.map ELSE <<>>

\* the characters QChar::isSpace holds of
Whitespace == {" ", "\t", "\n", "\r", "\f"}

\* QString::trimmed(): the text without the whitespace at its two ends
RECURSIVE trimmed(_)
trimmed(str) ==
    IF str = "" THEN str
    ELSE IF SubSeq(str, 1, 1) \in Whitespace
    THEN trimmed(SubSeq(str, 2, Len(str)))
    ELSE IF SubSeq(str, Len(str), Len(str)) \in Whitespace
    THEN trimmed(SubSeq(str, 1, Len(str) - 1))
    ELSE str

\* QVariantMap DeRestPluginPrivate::errorToMap(int id, const QString
\* &ressource, const QString &description)
errorToMap(id, ressource, description) ==
    [error |-> [type |-> id, address |-> ressource,
                description |-> description]]

\* putDeviceInstallCode that does not look at the type of installcode
putDeviceInstallCode_AnyType(r, rs) ==
    LET uniqueid == r.path[4]
        var == JsonParse(r.content)
        map == toMap(var)
    IN IF ~var.ok \/ DOMAIN map = {}
       THEN [ret |-> REQ_READY_SEND,
             rsp |-> [list |-> Append(rs.list,
                         errorToMap(ERR_INVALID_JSON,
                                    "/devices/" \o uniqueid \o "/installcode",
                                    "body contains invalid JSON")),
                      httpStatus |-> HttpStatusBadRequest]]
       ELSE IF "installcode" \in DOMAIN map
       THEN LET installCode == trimmed(toStringVariant(map["installcode"], 0))
            IN IF installCode # ""
               THEN [ret |-> REQ_READY_SEND,
                     rsp |-> [list |-> Append(rs.list,
                                 [success |-> [installcode |-> installCode]]),
                              httpStatus |-> HttpStatusOk]]
               ELSE [ret |-> REQ_READY_SEND,
                     rsp |-> [list |-> Append(rs.list,
                                 errorToMap(ERR_INVALID_VALUE, "/groups",
                                    "invalid value, " \o installCode
                                      \o ", for parameter, installcode")),
                              httpStatus |-> HttpStatusBadRequest]]
       ELSE [ret |-> REQ_READY_SEND,
             rsp |-> [list |-> Append(rs.list,
                         errorToMap(ERR_MISSING_PARAMETER,
                                    "/devices/" \o uniqueid \o "/installcode",
                                    "missing parameters in body")),
                      httpStatus |-> HttpStatusBadRequest]]

\* int RestDevices::putDeviceInstallCode(const ApiRequest &req, ApiResponse
\* &rsp): what it returns, and rsp afterwards. req.path[3] is r.path[4] here,
\* where indices start at 1.
putDeviceInstallCode(r, rs) ==
    LET uniqueid == r.path[4]
        var == JsonParse(r.content)
        map == toMap(var)
    IN IF ~var.ok \/ DOMAIN map = {}
       THEN [ret |-> REQ_READY_SEND,
             rsp |-> [list |-> Append(rs.list,
                         errorToMap(ERR_INVALID_JSON,
                                    "/devices/" \o uniqueid \o "/installcode",
                                    "body contains invalid JSON")),
                      httpStatus |-> HttpStatusBadRequest]]
       ELSE IF "installcode" \in DOMAIN map
       THEN LET installCode == trimmed(toStringVariant(map["installcode"], 0))
            IN IF map["installcode"].type = "String" /\ installCode # ""
               THEN [ret |-> REQ_READY_SEND,
                     rsp |-> [list |-> Append(rs.list,
                                 [success |-> [installcode |-> installCode]]),
                              httpStatus |-> HttpStatusOk]]
               ELSE [ret |-> REQ_READY_SEND,
                     rsp |-> [list |-> Append(rs.list,
                                 errorToMap(ERR_INVALID_VALUE, "/groups",
                                    "invalid value, " \o installCode
                                      \o ", for parameter, installcode")),
                              httpStatus |-> HttpStatusBadRequest]]
       ELSE [ret |-> REQ_READY_SEND,
             rsp |-> [list |-> Append(rs.list,
                         errorToMap(ERR_MISSING_PARAMETER,
                                    "/devices/" \o uniqueid \o "/installcode",
                                    "missing parameters in body")),
                      httpStatus |-> HttpStatusBadRequest]]

\* what the last call of the REST API was, and what it returned
ApiCall(op, ret) == [op |-> op, ret |-> ret]

InitApi ==
    /\ rItemDescriptors = DescriptorTable
    /\ item = ResourceItem(DescriptorTable[1])
    /\ now = 0
    /\ tz = 0
    /\ last = ApiCall("none", "")
    /\ bags = <<>>
    /\ lookup = NoLookup
    /\ strs = NoStrs
    /\ apiReq = NoRequest
    /\ apiRsp = NoResponse

\* a PUT request comes in with five path elements, the last installcode, and
\* a response for it that holds no entry yet and either status
Receive ==
    \E uniqueid \in UniqueIds, content \in Contents,
       status \in {HttpStatusOk, HttpStatusBadRequest} :
        /\ apiReq' = [path |-> <<"api", "12345", "devices", uniqueid,
                                 "installcode">>,
                      content |-> content]
        /\ apiRsp' = [list |-> <<>>, httpStatus |-> status]
        /\ last' = ApiCall("request", "")
        /\ UNCHANGED <<rItemDescriptors, item, now, tz, bags, lookup, strs>>

\* handleApi passes the request on to putDeviceInstallCode
PutDeviceInstallCode ==
    /\ last.op = "request"
    /\ LET p == putDeviceInstallCode(apiReq, apiRsp)
       IN /\ apiRsp' = p.rsp
          /\ last' = ApiCall("putDeviceInstallCode", p.ret)
    /\ UNCHANGED <<rItemDescriptors, item, now, tz, bags, lookup, strs, apiReq>>

NextApi ==
    \/ Receive
    \/ PutDeviceInstallCode

SpecApi == InitApi /\ [][NextApi]_vars

\* the text holds a character that is no whitespace
NonBlank(str) == \E i \in 1..Len(str) : SubSeq(str, i, i) \notin Whitespace

\* the body parses as a JSON object that is not empty and whose installcode
\* is a string that is not blank
Accepted(content) ==
    LET var == JsonParse(content)
    IN /\ var.ok
       /\ var.kind = "Map"
       /\ DOMAIN var.map # {}
       /\ "installcode" \in DOMAIN var.map
       /\ var.map["installcode"].type = "String"
       /\ NonBlank(var.map["installcode"].s)

\* C26: putDeviceInstallCode returns REQ_READY_SEND and appends one entry to
\* rsp.list, whatever the body: a success entry, with rsp.httpStatus
\* HttpStatusOk, when the body parses as a JSON object that is not empty and
\* whose installcode is a string that is not blank, and an error entry, with
\* HttpStatusBadRequest, in every other case.
C26_InstallCodeResponse ==
    [][(last.op = "request" /\ last'.op = "putDeviceInstallCode") =>
          /\ last'.ret = REQ_READY_SEND
          /\ Len(apiRsp'.list) = Len(apiRsp.list) + 1
          /\ SubSeq(apiRsp'.list, 1, Len(apiRsp.list)) = apiRsp.list
          /\ LET entry == apiRsp'.list[Len(apiRsp'.list)]
             IN IF Accepted(apiReq.content)
                THEN /\ apiRsp'.httpStatus = HttpStatusOk
                     /\ DOMAIN entry = {"success"}
                     /\ NonBlank(entry.success.installcode)
                ELSE /\ apiRsp'.httpStatus = HttpStatusBadRequest
                     /\ DOMAIN entry = {"error"}]_vars

\* an install code sent with whitespace around it was accepted: the response
\* holds the one success entry, with the code trimmed
C26_Witness ==
    /\ last = ApiCall("putDeviceInstallCode", REQ_READY_SEND)
    /\ apiReq.content = "{\"installcode\":\" abc\\t\"}"
    /\ apiRsp = [list |-> <<[success |-> [installcode |-> "abc"]]>>,
                 httpStatus |-> HttpStatusOk]

====
